---------------------------- MODULE Spec2Model ----------------------------
(* A state-machine model of the flat UNet assembler of DeepViewAgg           *)
(* (torch_points3d/models/base_architectures/unet.py,                        *)
(* UnwrappedUnetBasedModel) and of the blocks it composes.  The build        *)
(* (__init__ / _init_from_compact_format) and the forward pass are modelled  *)
(* statement group by statement group; pc is the position in the code.       *)
EXTENDS Integers, Sequences, FiniteSets, TLC

(***************************************************************************)
(* Bounds of the model                                                     *)
(***************************************************************************)
\* largest len(opt.down_conv.down_conv_nn)
MaxDown == 4
\* largest len(opt.up_conv.up_conv_nn)
MaxUp == 4
\* largest len(block_names[i]) of a KPDualBlock layer
MaxBlocks == 2
\* largest number of entries of a list-valued opt.innermost
MaxInner == 2
\* largest number of branching indices of one modality
MaxBranch == 2
\* largest number of layers of a MultiScaleTransform
MaxLayers == 3
\* largest number of points of the Data a MultiScaleTransform is called on
MaxPoints == 4

(***************************************************************************)
(* Values                                                                  *)
(***************************************************************************)
\* Python's None, where an operator reference is expected
NoneOp == <<>>

\* no name
NoName == <<>>

\* MODALITY_NAMES of torch_points3d.datasets.multimodal.data: the name
\* "image" and one more
MODALITY_NAMES == <<"image", "other">>

\* the classes a name of the 3D module library may name: a block with a
\* sampler and a neighbour finder of its own, a block without, a KPDualBlock,
\* and a block with a neighbour finder whose sampler is None (a SimpleBlock
\* that is not strided)
DownClasses == {"single", "bare", "dual", "unstrided"}
\* ... and an up block without or with an upsample_op
UpClasses == {"plain", "upsample"}

\* what a UnimodalBranch object may answer to kwargs[m].keys(): no such
\* attribute, keys without 'conv', keys without 'merge', or both keys
BranchIfaces == {"no_keys", "no_conv", "no_merge", "conv_merge"}

\* attribute names of a Data object: a name is a sequence of tokens
KeyX == <<"x">>
KeyA == <<"sampling_id", "0">>
KeyB == <<"sampling_id", "1">>
\* key.startswith(start_token)
StartsWith(key, token) ==
    /\ Len(key) >= Len(token)
    /\ SubSeq(key, 1, Len(token)) = token

VARIABLES
    pc,                \* position in __init__ / forward
    err,               \* the exception that ended __init__, or "none"
    unresolved,        \* the name a factory or library lookup did not find
    modalities,        \* self._modalities
    save_sampling_id,  \* self.save_sampling_id
    module_factories,  \* self._module_factories (its keys)
    resolved,          \* the classes the factories' names were found to name
    inner_modules,     \* self.inner_modules
    down_modules,      \* self.down_modules
    up_modules,        \* self.up_modules
    spatial_ops_dict,  \* self._spatial_ops_dict
    up_conv_cls_name,  \* __init__: the local up_conv_cls_name
    convs,             \* __init__: the local list down_modules of 3D convs
    branches,          \* __init__: the local list branches
    b_idx,             \* __init__: the local b_idx
    is_unet,           \* __init__: the local is_unet
    n,                 \* the length of the list the running loop ranges over
    i,                 \* the running loop index
    data,              \* forward: the local data
    stack_down,        \* forward: the local stack_down
    sampling_ids,      \* forward: the local sampling_ids
    log,               \* forward: what ran so far, in order
    out,               \* what the last forward call returned or raised
    block,             \* a MultimodalBlockDown constructed on its own
    blk_kwargs,        \* the names of its modality arguments, in the order given
    mm_data,           \* MultimodalBlockDown.forward: its argument mm_data
    blk_log,           \* MultimodalBlockDown.forward: what ran so far
    blk_out,           \* what the last call of the block returned or raised
    tree,              \* UnetBasedModel.__init__: the blocks built, deepest first
    tree_cfg,          \* what UnetBasedModel.__init__ read from opt, or the
                       \* flags a block constructed on its own was given
    tree_ops,          \* UnetBasedModel._spatial_ops_dict
    tree_frames,       \* UnetSkipConnectionBlock.forward: the argument data of
                       \* each call that has not returned, outermost first
    tree_data,         \* ... the value the step that ran last returned
    tree_log,          \* ... the calls made so far
    tree_out,          \* what the last forward of the tree returned or raised
    transform,         \* a MultiScaleTransform: strategies,
                       \* precompute_multi_scale, num_layers
    ms_data,           \* MultiScaleTransform.__call__: the attributes of data,
                       \* a list of <<name, value>>
    ms_pos,            \* ... its local pos (batch is zeros of the same length)
    special_params,    \* ... its local special_params
    ms_log,            \* ... the calls of samplers and neighbour finders made
    ms_out             \* what the last call of the transform returned

\* the attributes of the model object
selfVars == <<modalities, save_sampling_id, module_factories, resolved,
              inner_modules, down_modules, up_modules, spatial_ops_dict>>

\* the locals of _init_from_compact_format
localVars == <<up_conv_cls_name, convs, branches, b_idx, is_unet, n>>

\* the locals of forward, and its outcome
fwdVars == <<data, stack_down, sampling_ids, log, out>>

\* a MultimodalBlockDown built and called on its own
blockVars == <<block, blk_kwargs, mm_data, blk_log, blk_out>>

\* the state of what is built and called apart from the flat assembler
\* the recursive builder UnetBasedModel and the blocks it nests
tfwdVars == <<tree_frames, tree_data, tree_log, tree_out>>
treeVars == <<tree, tree_cfg, tree_ops, tfwdVars>>

msVars == <<transform, ms_data, ms_pos, special_params, ms_log, ms_out>>
unitVars == <<blockVars, treeVars, msVars>>

\* the state of the flat assembler and of its forward
modelVars == <<selfVars, localVars, fwdVars>>

vars == <<pc, err, unresolved, i, selfVars, localVars, fwdVars, unitVars>>

(***************************************************************************)
(* Collaborators: utils.config, BaseModel                                  *)
(***************************************************************************)
\* sequences over S of length lo..hi
SeqsOf(S, lo, hi) == UNION {[1..k -> S] : k \in lo..hi}

\* the values of a modality's branching_index (an int is the one-element
\* list, as line 455 makes it); one index past the deepest stage included
BranchingIndices == SeqsOf(0..(MaxDown \div 2), 0, MaxBranch)

\* the modality names of MODALITY_NAMES, as a set
ModalitySet == {MODALITY_NAMES[k] : k \in 1..Len(MODALITY_NAMES)}

\* fetch_modalities(opt.down_conv, MODALITY_NAMES): the names of
\* MODALITY_NAMES the configuration declares, in the order of MODALITY_NAMES
RECURSIVE FetchFrom(_, _)
FetchFrom(present, k) ==
    IF k > Len(MODALITY_NAMES) THEN <<>>
    ELSE (IF MODALITY_NAMES[k] \in present THEN <<MODALITY_NAMES[k]>> ELSE <<>>)
         \o FetchFrom(present, k + 1)

fetch_modalities(present) == FetchFrom(present, 1)

\* BaseModel.is_multimodal
is_multimodal == Len(modalities) > 0

(***************************************************************************)
(* Factories                                                               *)
(***************************************************************************)
\* getattr(lib, name, None) for the name <<modality, which>> of a factory:
\* the class found before under that name, else any class of the library
\* or "None"
Lookup(key, classes) ==
    IF key \in DOMAIN resolved THEN {resolved[key]} ELSE classes \cup {"None"}

\* resolved, once the name key was found to name class cls
Found(key, cls) ==
    [k \in DOMAIN resolved \cup {key} |->
        IF k = key THEN cls ELSE resolved[k]]

\* BaseFactory.get_module: the name the flow selects
BaseFactory_get_module(flow) ==
    IF flow = "UP" THEN <<"main", "module_name_up">>
    ELSE <<"main", "module_name_down">>

\* ModalityFactory.get_module: the name the flow selects
ModalityFactory_get_module(m, flow) ==
    IF flow = "ATOMIC" THEN <<m, "atomic_pooling_name">>
    ELSE IF flow = "VIEW" THEN <<m, "view_pooling_name">>
    ELSE IF flow = "FUSION" THEN <<m, "fusion_name">>
    ELSE IF flow = "UNET" THEN <<m, "UNet">>
    ELSE <<m, "module_name">>

\* _build_module, line 575: the name looked up for (flow, modality)
build_module_name(flow, modality) ==
    IF modality = "main" THEN BaseFactory_get_module(flow)
    ELSE ModalityFactory_get_module(modality, flow)

(***************************************************************************)
(* Convolution blocks and the operators they expose                        *)
(***************************************************************************)
\* what getattr(block, "sampler", None) is: a single value or a list
Single(op) == [is_list |-> FALSE, items |-> <<op>>]
ListOf(ops) == [is_list |-> TRUE, items |-> ops]

\* KPDualBlock.sampler / neighbour_finder: one operator per sub-block
KPDualBlock_ops(index, n_blocks) ==
    ListOf([j \in 1..n_blocks |-> <<index, j - 1>>])

\* a block built on a sampler and a neighbour finder of its own (SAModule)
SAModule_ops(index) == Single(<<index, 0>>)

\* the down convolution of layer index: its class is down_kind, n_blocks is
\* len(block_names[index])
DownConv(kind, index, n_blocks) ==
    LET ops == IF kind = "dual" THEN KPDualBlock_ops(index, n_blocks)
               ELSE IF kind \in {"single", "unstrided"}
               THEN SAModule_ops(index)
               ELSE Single(NoneOp)
    IN [index |-> index,
        sampler |-> IF kind = "unstrided" THEN Single(NoneOp) ELSE ops,
        neighbour_finder |-> ops]

\* the up convolution of layer index
UpConv(kind, index) ==
    [index |-> index,
     upsample_op |-> IF kind = "upsample" THEN <<index, 0>> ELSE NoneOp]

\* _save_sampling_and_search had it appended whatever the block exposes, a
\* list included, as one entry
save_sampling_and_search_nested(d, down_conv) ==
    [d EXCEPT
       !.sampler = Append(@, IF down_conv.sampler.is_list
                             THEN down_conv.sampler.items
                             ELSE down_conv.sampler.items[1]),
       !.neighbour_finder =
           Append(@, IF down_conv.neighbour_finder.is_list
                     THEN down_conv.neighbour_finder.items
                     ELSE down_conv.neighbour_finder.items[1])]

\* _save_sampling_and_search had it put the operators in front, as
\* UnetBasedModel._save_sampling_and_search does (lines 233-248)
save_sampling_and_search_prepend(d, down_conv) ==
    [d EXCEPT
       !.sampler = down_conv.sampler.items \o @,
       !.neighbour_finder = down_conv.neighbour_finder.items \o @]

\* _save_sampling_and_search had it recorded a sampler only when the block
\* has one, as _save_upsample does with upsample_op
save_sampling_and_search_skip_none(d, down_conv) ==
    [d EXCEPT
       !.sampler = IF down_conv.sampler.is_list
                   THEN @ \o down_conv.sampler.items
                   ELSE IF down_conv.sampler.items[1] # NoneOp
                   THEN Append(@, down_conv.sampler.items[1])
                   ELSE @,
       !.neighbour_finder = IF down_conv.neighbour_finder.is_list
                            THEN @ \o down_conv.neighbour_finder.items
                            ELSE Append(@, down_conv.neighbour_finder.items[1])]

\* _save_sampling_and_search
save_sampling_and_search(d, down_conv) ==
    [d EXCEPT
       !.sampler = IF down_conv.sampler.is_list
                   THEN @ \o down_conv.sampler.items
                   ELSE Append(@, down_conv.sampler.items[1]),
       !.neighbour_finder = IF down_conv.neighbour_finder.is_list
                            THEN @ \o down_conv.neighbour_finder.items
                            ELSE Append(@, down_conv.neighbour_finder.items[1])]

\* _save_upsample
save_upsample(d, up_conv) ==
    IF up_conv.upsample_op # NoneOp
    THEN [d EXCEPT !.upsample_op = Append(@, up_conv.upsample_op)]
    ELSE d


(***************************************************************************)
(* Multimodal blocks                                                       *)
(***************************************************************************)
\* nn.Identity(), the placeholder of a stage without branch
IdentityBranch == [kind |-> "Identity", conv |-> "none", index |-> 0]

\* UnimodalBranch(conv, atomic_pool, view_pool, fusion), built from the
\* arguments of position index
UnimodalBranch(conv, index) ==
    [kind |-> "UnimodalBranch", conv |-> conv, index |-> index]

\* MultimodalBlockDown._init_from_kwargs on one keyword argument kwargs[m]:
\* the exception it raises, or "none" when modality_blocks[m] is set.
\* nn.Identity has no attribute keys; iface is what a UnimodalBranch has
init_from_kwarg(branch, iface) ==
    IF branch.kind = "Identity" \/ iface = "no_keys" THEN "AttributeError"
    ELSE IF iface \in {"no_conv", "no_merge"} THEN "ValueError"
    ELSE "none"

\* MultimodalBlockDown._init_from_kwargs over MODALITY_NAMES, from name k on
RECURSIVE init_from_kwargs(_, _, _)
init_from_kwargs(kwargs, iface, k) ==
    IF k > Len(MODALITY_NAMES) THEN "none"
    ELSE IF MODALITY_NAMES[k] \in DOMAIN kwargs
              /\ init_from_kwarg(kwargs[MODALITY_NAMES[k]], iface) # "none"
         THEN init_from_kwarg(kwargs[MODALITY_NAMES[k]], iface)
         ELSE init_from_kwargs(kwargs, iface, k + 1)

\* MultimodalBlockDown.__init__ when _init_from_kwargs raises nothing
MultimodalBlockDown(down_block, conv_block, kwargs) ==
    [kind |-> "MultimodalBlockDown",
     down_block |-> down_block,
     conv_block |-> conv_block,
     modality_blocks |-> kwargs,
     sampler |-> <<down_block.sampler, down_block.sampler>>]

(***************************************************************************)
(* UnwrappedUnetBasedModel.__init__ and _init_from_compact_format          *)
(***************************************************************************)
EmptyOps == [neighbour_finder |-> <<>>, sampler |-> <<>>, upsample_op |-> <<>>]

\* a Data object: the module that produced it and its attributes, a list of
\* <<name, value>> in the order of data.keys
Data(src, attrs) == [src |-> src, attrs |-> attrs]

NoData == Data(<<"none", 0>>, <<>>)

\* the locals of _init_from_compact_format before they are bound
NoLocals ==
    /\ up_conv_cls_name = "None"
    /\ convs = <<>>
    /\ branches = <<>>
    /\ b_idx = <<>>
    /\ is_unet = FALSE
    /\ n = 0

\* UnetBasedModel.__init__ has read nothing yet
NoTreeCfg == [format |-> "none"]

\* no MultimodalBlockDown was constructed on its own
NoBlock == [kind |-> "none"]
NoTransform == [kind |-> "none"]

\* no mm_data was passed yet
NoMMData == [data |-> <<"none", 0>>, modalities |-> <<>>]

Init ==
    /\ pc = "new"
    /\ err = "none"
    /\ unresolved = NoName
    /\ i = 0
    /\ modalities = <<>>
    /\ save_sampling_id = FALSE
    /\ module_factories = {}
    /\ resolved = <<>>
    /\ inner_modules = <<>>
    /\ down_modules = <<>>
    /\ up_modules = <<>>
    /\ spatial_ops_dict = EmptyOps
    /\ NoLocals
    /\ data = NoData
    /\ stack_down = <<>>
    /\ sampling_ids = <<>>
    /\ log = <<>>
    /\ out = [result |-> "none", data |-> NoData]
    /\ block = NoBlock
    /\ blk_kwargs = <<>>
    /\ mm_data = NoMMData
    /\ blk_log = <<>>
    /\ blk_out = "none"
    /\ tree = <<>>
    /\ tree_cfg = NoTreeCfg
    /\ tree_ops = EmptyOps
    /\ tree_frames = <<>>
    /\ tree_data = <<"none", 0>>
    /\ tree_log = <<>>
    /\ tree_out = [result |-> "none", data |-> <<"none", 0>>]
    /\ transform = NoTransform
    /\ ms_data = <<>>
    /\ ms_pos = <<>>
    /\ special_params = <<>>
    /\ ms_log = <<>>
    /\ ms_out = [result |-> "none", data |-> <<>>]

\* an exception leaves __init__: no model object is returned
Raise(e) == pc' = "failed" /\ err' = e /\ unresolved' = NoName

\* calling the None a lookup of name returned raises TypeError (line 576,
\* line 470); getattr(modules_lib, name) raises AttributeError itself (lines
\* 551, 556)
RaiseUnresolved(e, name) == pc' = "failed" /\ err' = e /\ unresolved' = name

\* __init__, lines 381-395.  Read from opt: the modalities down_conv
\* declares, and whether down_conv is a list or lacks down_conv_nn
Construct ==
    /\ pc = "new"
    /\ \E present \in SUBSET ModalitySet :
          modalities' = fetch_modalities(present)
    /\ \E list_format \in BOOLEAN :
          IF list_format
          THEN Raise("NotImplementedError")
          ELSE pc' = "factories" /\ UNCHANGED <<err, unresolved>>
    /\ UNCHANGED <<i, save_sampling_id, module_factories, resolved,
                   inner_modules, down_modules, up_modules, spatial_ops_dict>>
    /\ UNCHANGED <<localVars, fwdVars>>
    /\ UNCHANGED unitVars

\* _init_from_compact_format, lines 402-422.  Read from opt:
\* down_conv.save_sampling_id, and up_conv.module_name (None without up_conv)
BuildFactories ==
    /\ pc = "factories"
    /\ save_sampling_id' \in BOOLEAN
    /\ up_conv_cls_name' \in {"None", "name"}
    /\ module_factories' =
          {"main"} \cup {modalities[k] : k \in 1..Len(modalities)}
    /\ pc' = "inner"
    /\ UNCHANGED <<err, unresolved, i, modalities, resolved, inner_modules, down_modules,
                   up_modules, spatial_ops_dict>>
    /\ UNCHANGED <<convs, branches, b_idx, is_unet, n, fwdVars>>
    /\ UNCHANGED unitVars

\* Identity() of core.common_modules
IdentityModule == [kind |-> "Identity", index |-> 0]

\* _create_inner_modules when every name is an attribute of modules_lib
create_inner_modules(k) ==
    [j \in 1..k |-> [kind |-> "inner", index |-> j - 1]]

\* lines 424-433, and the range of line 437.  Read from opt: innermost (absent,
\* one dict, or a list of k dicts), whether every module_name of it is in
\* modules_lib, and len(down_conv.down_conv_nn)
BuildInner ==
    /\ pc = "inner"
    /\ \E innermost \in {"absent", "dict", "list"}, k \in 0..MaxInner,
          found \in BOOLEAN :
          /\ (innermost = "absent") => (k = 0)
          /\ (innermost = "dict") => (k = 1)
          /\ (k = 0) => found
          /\ IF innermost # "absent"
             THEN IF ~found
                  THEN /\ RaiseUnresolved("AttributeError",
                                          <<"innermost", "module_name">>)
                       /\ UNCHANGED inner_modules
                  ELSE /\ inner_modules' = create_inner_modules(k)
                       /\ pc' = "down" /\ UNCHANGED <<err, unresolved>>
             ELSE /\ inner_modules' = <<IdentityModule>>
                  /\ pc' = "down" /\ UNCHANGED <<err, unresolved>>
    /\ IF pc' = "down" THEN n' \in 0..MaxDown ELSE n' = n
    /\ i' = 0
    /\ UNCHANGED <<modalities, save_sampling_id, module_factories, resolved,
                   down_modules, up_modules, spatial_ops_dict>>
    /\ UNCHANGED <<up_conv_cls_name, convs, branches, b_idx, is_unet, fwdVars>>
    /\ UNCHANGED unitVars

\* the loop of lines 437-440 without the call of line 439: the operators of
\* the block are left to be recorded later
BuildDown_Deferred ==
    /\ pc = "down"
    /\ i < n
    /\ \E cls \in Lookup(build_module_name("DOWN", "main"), DownClasses),
          n_blocks \in 1..MaxBlocks :
          /\ (cls # "dual") => (n_blocks = 1)
          /\ (cls = "dual" /\ i > 0) => (n_blocks = Len(convs[i].sampler.items))
          /\ IF cls = "None"
             THEN /\ RaiseUnresolved("TypeError",
                                     build_module_name("DOWN", "main"))
                  /\ UNCHANGED <<convs, i, resolved>>
             ELSE /\ resolved' = Found(build_module_name("DOWN", "main"), cls)
                  /\ convs' = Append(convs, DownConv(cls, i, n_blocks))
                  /\ i' = i + 1
                  /\ UNCHANGED <<pc, err, unresolved>>
    /\ UNCHANGED <<modalities, save_sampling_id, module_factories,
                   inner_modules, down_modules, up_modules, spatial_ops_dict>>
    /\ UNCHANGED <<up_conv_cls_name, branches, b_idx, is_unet, n, fwdVars>>
    /\ UNCHANGED unitVars

\* one turn of the loop of lines 437-440.  Read: the class down_conv's
\* module_name names, and len(block_names[i]) of a KPDualBlock layer (the
\* configurations modelled list as many blocks on every layer)
BuildDown ==
    /\ pc = "down"
    /\ i < n
    /\ \E cls \in Lookup(build_module_name("DOWN", "main"), DownClasses),
          n_blocks \in 1..MaxBlocks :
          /\ (cls # "dual") => (n_blocks = 1)
          /\ (cls = "dual" /\ i > 0) => (n_blocks = Len(convs[i].sampler.items))
          /\ IF cls = "None"
             THEN /\ RaiseUnresolved("TypeError",
                                     build_module_name("DOWN", "main"))
                  /\ UNCHANGED <<convs, spatial_ops_dict, i, resolved>>
             ELSE LET down_conv_3d == DownConv(cls, i, n_blocks) IN
                  /\ resolved' = Found(build_module_name("DOWN", "main"), cls)
                  /\ spatial_ops_dict' =
                       save_sampling_and_search(spatial_ops_dict, down_conv_3d)
                  /\ convs' = Append(convs, down_conv_3d)
                  /\ i' = i + 1
                  /\ UNCHANGED <<pc, err, unresolved>>
    /\ UNCHANGED <<modalities, save_sampling_id, module_factories,
                   inner_modules, down_modules, up_modules>>
    /\ UNCHANGED <<up_conv_cls_name, branches, b_idx, is_unet, n, fwdVars>>
    /\ UNCHANGED unitVars

\* lines 443-450 had the assertion of line 444 been len(down_modules) > 0
InitBranches_NoParity ==
    /\ pc = "down"
    /\ i = n
    /\ is_multimodal
    /\ IF ~(Len(convs) > 0)
       THEN Raise("AssertionError") /\ UNCHANGED branches
       ELSE /\ branches' = [s \in 1..(Len(convs) \div 2) |->
                              [m \in module_factories \ {"main"} |->
                                 IdentityBranch]]
            /\ pc' = "branch" /\ UNCHANGED <<err, unresolved>>
    /\ i' = 0
    /\ UNCHANGED <<selfVars, up_conv_cls_name, convs, b_idx, is_unet, n,
                   fwdVars>>
    /\ UNCHANGED unitVars

\* lines 443-450: the parity assertion and the placeholders
InitBranches ==
    /\ pc = "down"
    /\ i = n
    /\ is_multimodal
    /\ IF ~(Len(convs) % 2 = 0 /\ Len(convs) > 0)
       THEN Raise("AssertionError") /\ UNCHANGED branches
       ELSE /\ branches' = [s \in 1..(Len(convs) \div 2) |->
                              [m \in module_factories \ {"main"} |->
                                 IdentityBranch]]
            /\ pc' = "branch" /\ UNCHANGED <<err, unresolved>>
    /\ i' = 0
    /\ UNCHANGED <<selfVars, up_conv_cls_name, convs, b_idx, is_unet, n,
                   fwdVars>>
    /\ UNCHANGED unitVars

\* the flows whose modules one branch is built from (lines 468-482), in the
\* order they are resolved
BranchFlows(unet) ==
    <<IF unet THEN "UNET" ELSE "CONV", "ATOMIC", "VIEW", "FUSION">>

\* the loop of lines 467-487 had line 486 slotted the branch at i, its
\* position in b_idx, as the arguments of the branch are fetched
RECURSIVE build_branches_by_position(_, _, _, _, _)
build_branches_by_position(m, idxs, unet, j, br) ==
    IF j > Len(idxs) THEN [err |-> "none", branches |-> br]
    ELSE IF j - 1 >= Len(br)
         THEN [err |-> "IndexError", branches |-> br]
    ELSE build_branches_by_position(m, idxs, unet, j + 1,
            [br EXCEPT ![j][m] =
                UnimodalBranch(IF unet THEN "UNet" ELSE "conv", j - 1)])

\* the loop of lines 467-487 for modality m, from position j of b_idx on,
\* when every module is built: the branches, or the IndexError of line 486
RECURSIVE build_branches(_, _, _, _, _)
build_branches(m, idxs, unet, j, br) ==
    IF j > Len(idxs) THEN [err |-> "none", branches |-> br]
    ELSE IF idxs[j] >= Len(br)
         THEN [err |-> "IndexError", branches |-> br]
    ELSE build_branches(m, idxs, unet, j + 1,
            [br EXCEPT ![idxs[j] + 1][m] =
                UnimodalBranch(IF unet THEN "UNet" ELSE "conv", j - 1)])

\* resolved, once the first k flows of a branch of m were found
RECURSIVE FoundFlows(_, _, _)
FoundFlows(m, flows, k) ==
    IF k = 0 THEN resolved
    ELSE LET r == FoundFlows(m, flows, k - 1)
             key == build_module_name(flows[k], m)
         IN [x \in DOMAIN r \cup {key} |-> IF x = key THEN "cls" ELSE r[x]]

\* the loop of lines 452-487 without the assertion of lines 460-464
BuildBranches_NoAssert ==
    /\ pc = "branch"
    /\ i < Len(modalities)
    /\ \E idxs \in BranchingIndices, unet \in BOOLEAN, miss \in 0..4 :
        LET m == modalities[i + 1]
            flows == BranchFlows(unet)
            built == build_branches(m, idxs, unet, 1, branches)
        IN
        /\ b_idx' = idxs
        /\ is_unet' = unet
        /\ (miss # 0) =>
              /\ Len(idxs) > 0
              /\ build_module_name(flows[miss], m) \notin DOMAIN resolved
        /\ IF miss # 0
           THEN /\ RaiseUnresolved("TypeError",
                                   build_module_name(flows[miss], m))
                /\ resolved' = FoundFlows(m, flows, miss - 1)
                /\ UNCHANGED branches
           ELSE /\ resolved' = IF Len(idxs) > 0 THEN FoundFlows(m, flows, 4)
                                ELSE resolved
                /\ IF built.err # "none"
                   THEN Raise(built.err) /\ UNCHANGED branches
                   ELSE /\ branches' = built.branches
                        /\ UNCHANGED <<pc, err, unresolved>>
    /\ i' = i + 1
    /\ UNCHANGED <<modalities, save_sampling_id, module_factories,
                   inner_modules, down_modules, up_modules, spatial_ops_dict>>
    /\ UNCHANGED <<up_conv_cls_name, convs, n, fwdVars>>
    /\ UNCHANGED unitVars

\* one turn of the loop of lines 452-487.  Read from opt: the modality's
\* branching_index and whether it has an up_conv; miss is the first flow of
\* the branch whose name is not in its library (0: every name is found)
BuildBranches ==
    /\ pc = "branch"
    /\ i < Len(modalities)
    /\ \E idxs \in BranchingIndices, unet \in BOOLEAN, miss \in 0..4 :
        LET m == modalities[i + 1]
            flows == BranchFlows(unet)
            built == build_branches(m, idxs, unet, 1, branches)
        IN
        /\ b_idx' = idxs
        /\ is_unet' = unet
        /\ (miss # 0) =>
              /\ ~(unet /\ Len(idxs) # 1)
              /\ Len(idxs) > 0
              /\ build_module_name(flows[miss], m) \notin DOMAIN resolved
        /\ IF ~(~unet \/ Len(idxs) = 1)
           THEN Raise("AssertionError") /\ UNCHANGED <<branches, resolved>>
           ELSE IF miss # 0
           THEN /\ RaiseUnresolved("TypeError",
                                   build_module_name(flows[miss], m))
                /\ resolved' = FoundFlows(m, flows, miss - 1)
                /\ UNCHANGED branches
           ELSE /\ resolved' = IF Len(idxs) > 0 THEN FoundFlows(m, flows, 4)
                                ELSE resolved
                /\ IF built.err # "none"
                   THEN Raise(built.err) /\ UNCHANGED branches
                   ELSE branches' = built.branches /\ UNCHANGED <<pc, err, unresolved>>
    /\ i' = i + 1
    /\ UNCHANGED <<modalities, save_sampling_id, module_factories,
                   inner_modules, down_modules, up_modules, spatial_ops_dict>>
    /\ UNCHANGED <<up_conv_cls_name, convs, n, fwdVars>>
    /\ UNCHANGED unitVars

\* the first exception of the constructions of lines 490-493, or "none"
RECURSIVE pairing_error(_, _)
pairing_error(iface, s) ==
    IF s > Len(branches) THEN "none"
    ELSE IF init_from_kwargs(branches[s], iface, 1) # "none"
         THEN init_from_kwargs(branches[s], iface, 1)
         ELSE pairing_error(iface, s + 1)

\* lines 490-493: zip(down_modules[::2], down_modules[1::2], branches)
paired_down_modules ==
    [s \in 1..Len(branches) |->
        MultimodalBlockDown(convs[2 * s - 1], convs[2 * s], branches[s])]

\* lines 489-496, and the range of line 501.  Read: what a UnimodalBranch
\* answers to .keys(), and len(up_conv.up_conv_nn)
Combine ==
    /\ \/ pc = "branch" /\ i = Len(modalities)
       \/ pc = "down" /\ i = n /\ ~is_multimodal
    /\ IF is_multimodal
       THEN \E iface \in BranchIfaces :
              IF pairing_error(iface, 1) # "none"
              THEN Raise(pairing_error(iface, 1)) /\ UNCHANGED down_modules
              ELSE /\ down_modules' = paired_down_modules
                   /\ pc' = "up" /\ UNCHANGED <<err, unresolved>>
       ELSE /\ down_modules' = convs
            /\ pc' = "up" /\ UNCHANGED <<err, unresolved>>
    /\ IF pc' = "up" /\ up_conv_cls_name # "None"
       THEN n' \in 0..MaxUp
       ELSE n' = 0
    /\ i' = 0
    /\ UNCHANGED <<modalities, save_sampling_id, module_factories, resolved,
                   inner_modules, up_modules, spatial_ops_dict>>
    /\ UNCHANGED <<up_conv_cls_name, convs, branches, b_idx, is_unet, fwdVars>>
    /\ UNCHANGED unitVars

\* the loop of lines 501-504 had a name the factory does not know been kept
\* as a placeholder for the first forward to call
BuildUp_Deferred ==
    /\ pc = "up"
    /\ i < n
    /\ \E cls \in Lookup(build_module_name("UP", "main"), UpClasses) :
          LET up_module == UpConv(cls, i) IN
          /\ IF cls = "None"
             THEN /\ unresolved' = build_module_name("UP", "main")
                  /\ UNCHANGED <<resolved, spatial_ops_dict>>
             ELSE /\ resolved' = Found(build_module_name("UP", "main"), cls)
                  /\ spatial_ops_dict' =
                       save_upsample(spatial_ops_dict, up_module)
                  /\ UNCHANGED unresolved
          /\ up_modules' = Append(up_modules, up_module)
          /\ i' = i + 1
          /\ UNCHANGED <<pc, err>>
    /\ UNCHANGED <<modalities, save_sampling_id, module_factories,
                   inner_modules, down_modules>>
    /\ UNCHANGED <<localVars, fwdVars>>
    /\ UNCHANGED unitVars

\* one turn of the loop of lines 501-504.  Read: the class up_conv's
\* module_name names
BuildUp ==
    /\ pc = "up"
    /\ i < n
    /\ \E cls \in Lookup(build_module_name("UP", "main"), UpClasses) :
          IF cls = "None"
          THEN /\ RaiseUnresolved("TypeError",
                                  build_module_name("UP", "main"))
               /\ UNCHANGED <<up_modules, spatial_ops_dict, i, resolved>>
          ELSE LET up_module == UpConv(cls, i) IN
               /\ resolved' = Found(build_module_name("UP", "main"), cls)
               /\ spatial_ops_dict' = save_upsample(spatial_ops_dict, up_module)
               /\ up_modules' = Append(up_modules, up_module)
               /\ i' = i + 1
               /\ UNCHANGED <<pc, err, unresolved>>
    /\ UNCHANGED <<modalities, save_sampling_id, module_factories,
                   inner_modules, down_modules>>
    /\ UNCHANGED <<localVars, fwdVars>>
    /\ UNCHANGED unitVars

\* lines 506-508 and the return of __init__: its locals are gone, the model
\* object is the caller's
Finish ==
    /\ pc = "up"
    /\ i = n
    /\ pc' = "ready"
    /\ i' = 0
    /\ up_conv_cls_name' = "None"
    /\ convs' = <<>>
    /\ branches' = <<>>
    /\ b_idx' = <<>>
    /\ is_unet' = FALSE
    /\ n' = 0
    /\ UNCHANGED <<err, unresolved, selfVars, fwdVars>>
    /\ UNCHANGED unitVars

(***************************************************************************)
(* Data objects and sampling ids                                           *)
(***************************************************************************)
\* data.keys
KeysOf(d) == [k \in 1..Len(d.attrs) |-> d.attrs[k][1]]

\* position of name in a list of <<name, value>>, 0 when absent
RECURSIVE IndexOfKey(_, _, _)
IndexOfKey(attrs, key, k) ==
    IF k > Len(attrs) THEN 0
    ELSE IF attrs[k][1] = key THEN k
    ELSE IndexOfKey(attrs, key, k + 1)

HasAttr(attrs, key) == IndexOfKey(attrs, key, 1) # 0

\* getattr(data, key)
GetAttr(attrs, key) == attrs[IndexOfKey(attrs, key, 1)][2]

\* setattr(data, key, value), and d[key] = value of a dict
SetAttr(attrs, key, value) ==
    IF HasAttr(attrs, key)
    THEN [attrs EXCEPT ![IndexOfKey(attrs, key, 1)] = <<key, value>>]
    ELSE Append(attrs, <<key, value>>)

\* extract_matching_key had its loop gone on after a match: the last key
\* from position k on that starts with start_token
RECURSIVE extract_matching_key_last(_, _, _)
extract_matching_key_last(keys, start_token, k) ==
    IF k > Len(keys) THEN <<>>
    ELSE LET later == extract_matching_key_last(keys, start_token, k + 1)
         IN IF later # <<>> THEN later
            ELSE IF StartsWith(keys[k], start_token) THEN keys[k]
            ELSE <<>>

\* extract_matching_key, from position k on; <<>> stands for None
RECURSIVE extract_matching_key(_, _, _)
extract_matching_key(keys, start_token, k) ==
    IF k > Len(keys) THEN <<>>
    ELSE IF StartsWith(keys[k], start_token) THEN keys[k]
    ELSE extract_matching_key(keys, start_token, k + 1)

\* the loop of _collect_sampling_ids had line 542 kept a key already in d
RECURSIVE collect_from_setdefault(_, _, _)
collect_from_setdefault(list_data, k, d) ==
    IF k > Len(list_data) THEN d
    ELSE LET key == extract_matching_key(KeysOf(list_data[k]),
                                         <<"sampling_id">>, 1)
         IN collect_from_setdefault(list_data, k + 1,
               IF key # <<>> /\ ~HasAttr(d, key)
               THEN SetAttr(d, key, GetAttr(list_data[k].attrs, key))
               ELSE d)

\* the loop of _collect_sampling_ids over list_data, from entry k on
RECURSIVE collect_from(_, _, _)
collect_from(list_data, k, d) ==
    IF k > Len(list_data) THEN d
    ELSE LET key == extract_matching_key(KeysOf(list_data[k]),
                                         <<"sampling_id">>, 1)
         IN collect_from(list_data, k + 1,
               IF key # <<>>
               THEN SetAttr(d, key, GetAttr(list_data[k].attrs, key))
               ELSE d)

\* _collect_sampling_ids
collect_sampling_ids(list_data) ==
    IF save_sampling_id THEN collect_from(list_data, 1, <<>>) ELSE <<>>

\* the loop of lines 612-613 had it left alone an attribute the output of
\* the last up module already carries
RECURSIVE attach_from_keep(_, _, _)
attach_from_keep(attrs, d, k) ==
    IF k > Len(d) THEN attrs
    ELSE attach_from_keep(IF HasAttr(attrs, d[k][1]) THEN attrs
                          ELSE SetAttr(attrs, d[k][1], d[k][2]), d, k + 1)

\* the loop of lines 612-613, from item k of sampling_ids on
RECURSIVE attach_from(_, _, _)
attach_from(attrs, d, k) ==
    IF k > Len(d) THEN attrs
    ELSE attach_from(SetAttr(attrs, d[k][1], d[k][2]), d, k + 1)

\* the attribute lists a down or inner module may give the Data it returns:
\* the features alone, or the features and two sampling-id attributes; every
\* value is tagged v, the module that computed it
AttrChoices(v) ==
    { <<<<KeyX, v>>>>,
      <<<<KeyX, v>>, <<KeyB, v>>, <<KeyA, v>>>> }

(***************************************************************************)
(* UnwrappedUnetBasedModel.forward                                         *)
(***************************************************************************)
\* an exception leaves forward
FwdRaise(e) == pc' = "ready" /\ out' = [result |-> e, data |-> NoData]

\* an entry of log: what ran, its position in its list, and for an up
\* module the producer of the skip entry it was given
Event(op, index, skip) == [op |-> op, index |-> index, skip |-> skip]

\* the Data object forward is called on
InputData == Data(<<"input", 0>>, <<<<KeyX, <<"input", 0>>>>>>)

\* forward without the guard of lines 593-594
Forward_NoGuard ==
    /\ pc = "ready"
    /\ data' = InputData
    /\ log' = <<>>
    /\ stack_down' = <<>>
    /\ pc' = "fwd_down"
    /\ out' = [result |-> "none", data |-> NoData]
    /\ i' = 0
    /\ UNCHANGED <<err, unresolved, sampling_ids>>
    /\ UNCHANGED <<selfVars, localVars>>
    /\ UNCHANGED unitVars

\* the call and lines 592-596
Forward ==
    /\ pc = "ready"
    /\ data' = InputData
    /\ log' = <<>>
    /\ IF is_multimodal
       THEN FwdRaise("NotImplementedError") /\ UNCHANGED stack_down
       ELSE /\ stack_down' = <<>>
            /\ pc' = "fwd_down"
            /\ out' = [result |-> "none", data |-> NoData]
    /\ i' = 0
    /\ UNCHANGED <<err, unresolved, sampling_ids>>
    /\ UNCHANGED <<selfVars, localVars>>
    /\ UNCHANGED unitVars

\* the down loop had it run over range(len(self.down_modules)): the output
\* of the last down module is pushed as well
ForwardDown_PushLast ==
    /\ pc = "fwd_down"
    /\ IF Len(down_modules) = 0
       THEN FwdRaise("IndexError") /\ UNCHANGED <<data, stack_down, log, i>>
       ELSE \E attrs \in AttrChoices(<<"down", i>>) :
              /\ data' = Data(<<"down", i>>, attrs)
              /\ log' = Append(log, Event("down", i, <<>>))
              /\ stack_down' = Append(stack_down, data')
              /\ IF i < Len(down_modules) - 1
                 THEN i' = i + 1 /\ UNCHANGED pc
                 ELSE pc' = "fwd_inner" /\ UNCHANGED i
              /\ UNCHANGED out
    /\ UNCHANGED <<err, unresolved, sampling_ids>>
    /\ UNCHANGED <<selfVars, localVars>>
    /\ UNCHANGED unitVars

\* the down loop had it recorded the sampler of each module it runs
ForwardDown_Registering ==
    /\ pc = "fwd_down"
    /\ IF Len(down_modules) = 0
       THEN /\ FwdRaise("IndexError")
            /\ UNCHANGED <<data, stack_down, log, i, spatial_ops_dict>>
       ELSE \E attrs \in AttrChoices(<<"down", i>>) :
              /\ data' = Data(<<"down", i>>, attrs)
              /\ log' = Append(log, Event("down", i, <<>>))
              /\ spatial_ops_dict' =
                   save_sampling_and_search(spatial_ops_dict,
                                            down_modules[i + 1])
              /\ IF i < Len(down_modules) - 1
                 THEN /\ stack_down' = Append(stack_down, data')
                      /\ i' = i + 1
                      /\ UNCHANGED pc
                 ELSE /\ pc' = "fwd_inner"
                      /\ UNCHANGED <<stack_down, i>>
              /\ UNCHANGED out
    /\ UNCHANGED <<err, unresolved, sampling_ids>>
    /\ UNCHANGED <<modalities, save_sampling_id, module_factories, resolved,
                   inner_modules, down_modules, up_modules>>
    /\ UNCHANGED localVars
    /\ UNCHANGED unitVars

\* one turn of the loop of lines 597-599, or line 600
ForwardDown ==
    /\ pc = "fwd_down"
    /\ IF Len(down_modules) = 0
       THEN FwdRaise("IndexError") /\ UNCHANGED <<data, stack_down, log, i>>
       ELSE \E attrs \in AttrChoices(<<"down", i>>) :
              /\ data' = Data(<<"down", i>>, attrs)
              /\ log' = Append(log, Event("down", i, <<>>))
              /\ IF i < Len(down_modules) - 1
                 THEN /\ stack_down' = Append(stack_down, data')
                      /\ i' = i + 1
                      /\ UNCHANGED pc
                 ELSE /\ pc' = "fwd_inner"
                      /\ UNCHANGED <<stack_down, i>>
              /\ UNCHANGED out
    /\ UNCHANGED <<err, unresolved, sampling_ids>>
    /\ UNCHANGED <<selfVars, localVars>>
    /\ UNCHANGED unitVars

\* lines 602-604 had line 604 applied every module of inner_modules in turn
ForwardInner_Each ==
    /\ pc = "fwd_inner"
    /\ IF Len(inner_modules) = 0
       THEN FwdRaise("IndexError") /\ UNCHANGED <<data, stack_down, log>>
       ELSE IF inner_modules[1].kind # "Identity"
       THEN \E attrs \in AttrChoices(<<"inner", Len(inner_modules) - 1>>) :
              /\ stack_down' = Append(stack_down, data)
              /\ data' = Data(<<"inner", Len(inner_modules) - 1>>, attrs)
              /\ log' = log \o [k \in 1..Len(inner_modules) |->
                                   Event("inner", k - 1, <<>>)]
              /\ pc' = "fwd_collect"
              /\ UNCHANGED out
       ELSE /\ pc' = "fwd_collect"
            /\ UNCHANGED <<data, stack_down, log, out>>
    /\ UNCHANGED <<err, unresolved, sampling_ids, i>>
    /\ UNCHANGED <<selfVars, localVars>>
    /\ UNCHANGED unitVars

\* lines 602-604 had the push of line 603 stood before the test of line 602
ForwardInner_AlwaysPush ==
    /\ pc = "fwd_inner"
    /\ IF Len(inner_modules) = 0
       THEN FwdRaise("IndexError") /\ UNCHANGED <<data, stack_down, log>>
       ELSE IF inner_modules[1].kind # "Identity"
       THEN \E attrs \in AttrChoices(<<"inner", 0>>) :
              /\ stack_down' = Append(stack_down, data)
              /\ data' = Data(<<"inner", 0>>, attrs)
              /\ log' = Append(log, Event("inner", 0, <<>>))
              /\ pc' = "fwd_collect"
              /\ UNCHANGED out
       ELSE /\ stack_down' = Append(stack_down, data)
            /\ pc' = "fwd_collect"
            /\ UNCHANGED <<data, log, out>>
    /\ UNCHANGED <<err, unresolved, sampling_ids, i>>
    /\ UNCHANGED <<selfVars, localVars>>
    /\ UNCHANGED unitVars

\* lines 602-604
ForwardInner ==
    /\ pc = "fwd_inner"
    /\ IF Len(inner_modules) = 0
       THEN FwdRaise("IndexError") /\ UNCHANGED <<data, stack_down, log>>
       ELSE IF inner_modules[1].kind # "Identity"
       THEN \E attrs \in AttrChoices(<<"inner", 0>>) :
              /\ stack_down' = Append(stack_down, data)
              /\ data' = Data(<<"inner", 0>>, attrs)
              /\ log' = Append(log, Event("inner", 0, <<>>))
              /\ pc' = "fwd_collect"
              /\ UNCHANGED out
       ELSE /\ pc' = "fwd_collect"
            /\ UNCHANGED <<data, stack_down, log, out>>
    /\ UNCHANGED <<err, unresolved, sampling_ids, i>>
    /\ UNCHANGED <<selfVars, localVars>>
    /\ UNCHANGED unitVars

\* line 606
ForwardCollect ==
    /\ pc = "fwd_collect"
    /\ sampling_ids' = collect_sampling_ids(stack_down)
    /\ pc' = "fwd_up"
    /\ i' = 0
    /\ UNCHANGED <<err, unresolved, data, stack_down, log, out>>
    /\ UNCHANGED <<selfVars, localVars>>
    /\ UNCHANGED unitVars

\* the attribute lists an up module may give the Data it returns: the
\* features alone, or with a sampling-id attribute of its own making
UpAttrChoices(v) == { <<<<KeyX, v>>>>, <<<<KeyX, v>>, <<KeyB, v>>>> }

\* the up loop had it taken the oldest entry of the stack: stack_down.pop(0)
ForwardUp_Fifo ==
    /\ pc = "fwd_up"
    /\ i < Len(up_modules)
    /\ IF Len(stack_down) = 0
       THEN FwdRaise("IndexError") /\ UNCHANGED <<data, stack_down, log, i>>
       ELSE \E attrs \in UpAttrChoices(<<"up", i>>) :
              /\ data' = Data(<<"up", i>>, attrs)
              /\ stack_down' = Tail(stack_down)
              /\ log' = Append(log, Event("up", i, Head(stack_down).src))
              /\ i' = i + 1
              /\ UNCHANGED <<pc, out>>
    /\ UNCHANGED <<err, unresolved, sampling_ids>>
    /\ UNCHANGED <<selfVars, localVars>>
    /\ UNCHANGED unitVars

\* one turn of the loop of lines 608-610
ForwardUp ==
    /\ pc = "fwd_up"
    /\ i < Len(up_modules)
    /\ IF Len(stack_down) = 0
       THEN FwdRaise("IndexError") /\ UNCHANGED <<data, stack_down, log, i>>
       ELSE \E attrs \in UpAttrChoices(<<"up", i>>) :
              /\ data' = Data(<<"up", i>>, attrs)
              /\ stack_down' = SubSeq(stack_down, 1, Len(stack_down) - 1)
              /\ log' = Append(log, Event("up", i,
                                          stack_down[Len(stack_down)].src))
              /\ i' = i + 1
              /\ UNCHANGED <<pc, out>>
    /\ UNCHANGED <<err, unresolved, sampling_ids>>
    /\ UNCHANGED <<selfVars, localVars>>
    /\ UNCHANGED unitVars

\* lines 612-614
ForwardReturn ==
    /\ pc = "fwd_up"
    /\ i = Len(up_modules)
    /\ data' = [data EXCEPT !.attrs = attach_from(@, sampling_ids, 1)]
    /\ out' = [result |-> "ok", data |-> data']
    /\ pc' = "ready"
    /\ UNCHANGED <<err, unresolved, stack_down, sampling_ids, log, i>>
    /\ UNCHANGED <<selfVars, localVars>>
    /\ UNCHANGED unitVars

(***************************************************************************)
(* MultimodalBlockDown, constructed and called on its own                  *)
(***************************************************************************)
\* what kwargs[m] is when the block is given a mapping of module names to
\* modules
ModalityDict == [kind |-> "dict", conv |-> "conv", index |-> 0]

\* MultimodalBlockDown.modalities: list(self.modality_blocks.keys()), the keys
\* in the order _init_from_kwargs inserted them
BlockModalities(b) ==
    SelectSeq(MODALITY_NAMES, LAMBDA m : m \in DOMAIN b.modality_blocks)

\* the mm_data a caller passes: the main-stream data, and for each modality
\* its data and mappings; the mappings are "fresh" when they refer to the
\* points the down convolution keeps, "stale" when they refer to a point
\* index beyond them
MMData(present, mappings) ==
    [data |-> <<"input", 0>>,
     modalities |-> [m \in present |->
                       [data |-> <<"input", m>>, mappings |-> mappings]]]

\* the keyword arguments a caller may give the block after the two
\* convolutions: names of MODALITY_NAMES, each once, in any order
KeywordOrders ==
    {names \in SeqsOf(ModalitySet, 0, Len(MODALITY_NAMES)) :
        \A j, k \in 1..Len(names) : names[j] = names[k] => j = k}

\* an exception leaves the constructor of the block: no block results
BlockRaise(e) == pc' = "blk_failed" /\ err' = e /\ unresolved' = NoName

\* MultimodalBlockDown(down_block, conv_block, **kwargs), lines 18-47.  Read:
\* the classes of the two convolutions, the modalities given as keyword
\* arguments and what their values answer to .keys()
BlockConstruct ==
    /\ pc = "new"
    /\ \E kind \in DownClasses, n_blocks \in 1..MaxBlocks,
          names \in KeywordOrders, iface \in BranchIfaces :
          LET kwargs == [m \in {names[k] : k \in 1..Len(names)} |->
                           ModalityDict] IN
          /\ (kind # "dual") => (n_blocks = 1)
          /\ blk_kwargs' = names
          /\ IF init_from_kwargs(kwargs, iface, 1) # "none"
             THEN BlockRaise(init_from_kwargs(kwargs, iface, 1))
                  /\ UNCHANGED block
             ELSE /\ block' = MultimodalBlockDown(DownConv(kind, 0, n_blocks),
                                                  DownConv(kind, 1, n_blocks),
                                                  kwargs)
                  /\ pc' = "blk_ready"
                  /\ UNCHANGED <<err, unresolved>>
    /\ UNCHANGED <<i, mm_data, blk_log, blk_out, modelVars>>
    /\ UNCHANGED <<treeVars, msVars>>

\* the call of forward(mm_data), line 57.  Read: the modalities mm_data
\* carries (those of the block at least) and the state of their mappings
BlockForward ==
    /\ pc = "blk_ready"
    /\ \E mappings \in {"fresh", "stale"} :
          mm_data' = MMData(ModalitySet, mappings)
    /\ blk_log' = <<>>
    /\ blk_out' = "none"
    /\ pc' = "blk_down"
    /\ i' = 0
    /\ UNCHANGED <<err, unresolved, block, blk_kwargs, modelVars>>
    /\ UNCHANGED <<treeVars, msVars>>

\* line 60
BlockDown ==
    /\ pc = "blk_down"
    /\ mm_data' = [mm_data EXCEPT !.data = <<"down_block", 0>>]
    /\ blk_log' = Append(blk_log, <<"down_block", "main">>)
    /\ pc' = "blk_modal"
    /\ i' = 0
    /\ UNCHANGED <<err, unresolved, block, blk_kwargs, blk_out, modelVars>>
    /\ UNCHANGED <<treeVars, msVars>>

\* line 69, for modality i of self.modalities
BlockModalityConv ==
    /\ pc = "blk_modal"
    /\ i < Len(BlockModalities(block))
    /\ LET m == BlockModalities(block)[i + 1] IN
       /\ mm_data' = [mm_data EXCEPT !.modalities[m].data = <<"conv", m>>]
       /\ blk_log' = Append(blk_log, <<"conv", m>>)
    /\ pc' = "blk_merge"
    /\ UNCHANGED <<err, unresolved, i, block, blk_kwargs, blk_out, modelVars>>
    /\ UNCHANGED <<treeVars, msVars>>

\* lines 78-82: self.merge_block_mod is set nowhere in the class, and
\* nn.Module.__getattr__ raises AttributeError for it before the arguments
\* of the call are evaluated
BlockMerge ==
    /\ pc = "blk_merge"
    /\ blk_out' = "AttributeError"
    /\ pc' = "blk_ready"
    /\ UNCHANGED <<err, unresolved, i, block, blk_kwargs, mm_data, blk_log, modelVars>>
    /\ UNCHANGED <<treeVars, msVars>>

\* lines 85-86, once the loop of line 62 is over
BlockConv ==
    /\ pc = "blk_modal"
    /\ i = Len(BlockModalities(block))
    /\ mm_data' = [mm_data EXCEPT !.data = <<"conv_block", 0>>]
    /\ blk_log' = Append(blk_log, <<"conv_block", "main">>)
    /\ blk_out' = "ok"
    /\ pc' = "blk_ready"
    /\ UNCHANGED <<err, unresolved, i, block, blk_kwargs, modelVars>>
    /\ UNCHANGED <<treeVars, msVars>>

(***************************************************************************)
(* UnetBasedModel and UnetSkipConnectionBlock                              *)
(***************************************************************************)
\* the exception raised where this module has none to report
NoError == "none"

\* the position list[index] reads in a list of length len, as Python counts
\* it (negative indices from the end); -1 when it raises IndexError
PyIndex(index, len) ==
    IF index >= 0 /\ index < len THEN index
    ELSE IF index < 0 /\ -index <= len THEN len + index
    ELSE -1

\* args_up / args_down: the class the name resolved to ("None" when the
\* factory did not find it), args["index"], the layer of the configuration
\* the arguments were fetched from, and len(block_names) of a KPDualBlock
ArgsUp(cls, index, layer) == [cls |-> cls, index |-> index, layer |-> layer]
ArgsDown(cls, index, n_blocks) ==
    [cls |-> cls, index |-> index, n_blocks |-> n_blocks]

\* a block that has no down convolution (the innermost one)
NoDown == [index |-> -1, sampler |-> Single(NoneOp),
           neighbour_finder |-> Single(NoneOp)]

\* UnetSkipConnectionBlock.__init__ without the assertion of line 304
UnetSkipConnectionBlock_NoAssert(args_up, args_down, inner_known, submodule, outermost, innermost) ==
    IF innermost
    THEN IF ~inner_known THEN [err |-> "AttributeError"]
         ELSE IF args_up.cls = "None" THEN [err |-> "TypeError"]
         ELSE [err |-> NoError,
               node |-> [outermost |-> outermost, innermost |-> innermost,
                         inner |-> "inner", down |-> NoDown,
                         submodule |-> "none",
                         up |-> UpConv(args_up.cls, args_up.index),
                         up_layer |-> args_up.layer]]
    ELSE IF args_down.cls = "None" \/ args_up.cls = "None"
         THEN [err |-> "TypeError"]
         ELSE [err |-> NoError,
               node |-> [outermost |-> outermost, innermost |-> innermost,
                         inner |-> "none",
                         down |-> DownConv(args_down.cls, args_down.index,
                                           args_down.n_blocks),
                         submodule |-> submodule,
                         up |-> UpConv(args_up.cls, args_up.index),
                         up_layer |-> args_up.layer]]

\* UnetSkipConnectionBlock.__init__: the exception it raises, or the block
UnetSkipConnectionBlock(args_up, args_down, inner_known, submodule, outermost, innermost) ==
    IF innermost
    THEN IF outermost # FALSE
         THEN [err |-> "AssertionError"]
         ELSE IF ~inner_known THEN [err |-> "AttributeError"]
         ELSE IF args_up.cls = "None" THEN [err |-> "TypeError"]
         ELSE [err |-> NoError,
               node |-> [outermost |-> outermost, innermost |-> innermost,
                         inner |-> "inner", down |-> NoDown,
                         submodule |-> "none",
                         up |-> UpConv(args_up.cls, args_up.index),
                         up_layer |-> args_up.layer]]
    ELSE IF args_down.cls = "None" \/ args_up.cls = "None"
         THEN [err |-> "TypeError"]
         ELSE [err |-> NoError,
               node |-> [outermost |-> outermost, innermost |-> innermost,
                         inner |-> "none",
                         down |-> DownConv(args_down.cls, args_down.index,
                                           args_down.n_blocks),
                         submodule |-> submodule,
                         up |-> UpConv(args_up.cls, args_up.index),
                         up_layer |-> args_up.layer]]

\* UnetBasedModel._save_sampling_and_search
tree_save_sampling_and_search(d, submodule) ==
    [d EXCEPT
       !.sampler = submodule.down.sampler.items \o @,
       !.neighbour_finder = submodule.down.neighbour_finder.items \o @,
       !.upsample_op = IF submodule.up.upsample_op # NoneOp
                       THEN Append(@, submodule.up.upsample_op)
                       ELSE @]

\* what UnetBasedModel.__init__ reads from opt: the format, the numbers of
\* down and up layers, whether there is an innermost section, the classes
\* the module names name, and the one name (if any) its library lacks
TreeCfgs ==
    [format : {"compact", "list"},
     num_convs : 1..MaxDown,
     num_ups : 0..(MaxUp + 1),
     has_innermost : BOOLEAN,
     down_cls : DownClasses,
     up_cls : UpClasses,
     n_blocks : 1..MaxBlocks,
     missing : {"none", "down", "up", "inner"}]

\* the class a name resolves to: get_module gives None for a missing name
DownCls(cfg) == IF cfg.missing = "down" THEN "None" ELSE cfg.down_cls
UpCls(cfg) == IF cfg.missing = "up" THEN "None" ELSE cfg.up_cls

\* what submodule a block is given
SubmoduleOf(t, cfg) ==
    IF t # <<>> THEN "block"
    ELSE IF cfg.format = "compact" THEN "Identity" ELSE "EmptyList"

\* an exception leaves UnetBasedModel.__init__ or a block's constructor
TreeRaise(e) ==
    /\ pc' = "tree_failed" /\ err' = e /\ unresolved' = NoName
    /\ UNCHANGED <<tree, tree_ops>>

\* the layer of opt.up_conv that fetch_arguments_from_list(opt.up_conv, idx,
\* ...) reads for the block of depth index, with idx as line 262 computes it
fetch_up_index(cfg, index) == PyIndex(cfg.num_ups - index - 1, cfg.num_ups)

\* the builders had they passed no outermost flag to the last block
TreeBlock_Unflagged(cfg, t, index, outermost) ==
    LET pos == IF cfg.format = "compact" THEN fetch_up_index(cfg, index)
               ELSE IF outermost THEN PyIndex(-1, cfg.num_ups)
               ELSE PyIndex(cfg.num_convs - index, cfg.num_ups)
    IN IF pos = -1 THEN [err |-> "IndexError"]
       ELSE IF cfg.format = "list" /\ cfg.missing \in {"down", "up"}
       THEN [err |-> "AttributeError"]
       ELSE UnetSkipConnectionBlock(
               ArgsUp(UpCls(cfg), index, pos),
               ArgsDown(DownCls(cfg), index, cfg.n_blocks),
               TRUE, SubmoduleOf(t, cfg), FALSE, FALSE)

\* the block of depth index that _init_from_compact_format (lines 157-170,
\* with _fetch_arguments_up_and_down) or _init_from_layer_list_format (lines
\* 205-229) builds around the blocks t already built: the exception or the
\* block
TreeBlock(cfg, t, index, outermost) ==
    LET pos == IF cfg.format = "compact" THEN fetch_up_index(cfg, index)
               ELSE IF outermost THEN PyIndex(-1, cfg.num_ups)
               ELSE PyIndex(cfg.num_convs - index, cfg.num_ups)
    IN IF pos = -1 THEN [err |-> "IndexError"]
       ELSE IF cfg.format = "list" /\ cfg.missing \in {"down", "up"}
       THEN [err |-> "AttributeError"]
       ELSE UnetSkipConnectionBlock(
               ArgsUp(UpCls(cfg), index, pos),
               ArgsDown(DownCls(cfg), index, cfg.n_blocks),
               TRUE, SubmoduleOf(t, cfg), outermost, FALSE)

\* the start of either builder without the assertion of lines 140-141 and
\* of line 192
TreeConstruct_NoAssert ==
    /\ pc = "new"
    /\ \E cfg \in TreeCfgs :
          /\ (cfg.down_cls # "dual") => (cfg.n_blocks = 1)
          /\ (cfg.missing = "inner") => cfg.has_innermost
          /\ tree_cfg' = cfg
          /\ i' = cfg.num_convs - 1
          /\ IF ~cfg.has_innermost
             THEN /\ pc' = "tree_loop"
                  /\ UNCHANGED <<err, unresolved, tree, tree_ops>>
             ELSE IF cfg.num_ups = 0
             THEN TreeRaise("IndexError")
             ELSE IF cfg.format = "list" /\ cfg.missing = "up"
             THEN TreeRaise("AttributeError")
             ELSE LET unet_block ==
                        UnetSkipConnectionBlock(
                           ArgsUp(UpCls(cfg), -1, 0),
                           ArgsDown("None", -1, 1),
                           cfg.missing # "inner", "none", FALSE, TRUE)
                  IN IF unet_block.err # NoError
                     THEN TreeRaise(unet_block.err)
                     ELSE /\ tree' = <<unet_block.node>>
                          /\ pc' = "tree_loop"
                          /\ UNCHANGED <<err, unresolved, tree_ops>>
    /\ UNCHANGED <<modelVars, blockVars, tfwdVars, msVars>>

\* UnetBasedModel.__init__ (lines 110-121) and the start of either builder:
\* lines 128-154, or lines 179-203
TreeConstruct ==
    /\ pc = "new"
    /\ \E cfg \in TreeCfgs :
          /\ (cfg.down_cls # "dual") => (cfg.n_blocks = 1)
          /\ (cfg.missing = "inner") => cfg.has_innermost
          /\ tree_cfg' = cfg
          /\ i' = cfg.num_convs - 1
          /\ IF ~cfg.has_innermost
             THEN /\ pc' = "tree_loop"
                  /\ UNCHANGED <<err, unresolved, tree, tree_ops>>
             ELSE IF cfg.num_convs + 1 # cfg.num_ups
             THEN TreeRaise("AssertionError")
             ELSE IF cfg.format = "list" /\ cfg.missing = "up"
             THEN TreeRaise("AttributeError")
             ELSE LET unet_block ==
                        UnetSkipConnectionBlock(
                           ArgsUp(UpCls(cfg), -1, 0),
                           ArgsDown("None", -1, 1),
                           cfg.missing # "inner", "none", FALSE, TRUE)
                  IN IF unet_block.err # NoError
                     THEN TreeRaise(unet_block.err)
                     ELSE /\ tree' = <<unet_block.node>>
                          /\ pc' = "tree_loop"
                          /\ UNCHANGED <<err, unresolved, tree_ops>>
    /\ UNCHANGED <<modelVars, blockVars, tfwdVars, msVars>>

\* one turn of the loop of lines 157-162, or of lines 205-219
TreeLoop ==
    /\ pc = "tree_loop"
    /\ i >= 1
    /\ LET unet_block == TreeBlock(tree_cfg, tree, i, FALSE) IN
       IF unet_block.err # NoError
       THEN TreeRaise(unet_block.err) /\ UNCHANGED i
       ELSE /\ tree' = Append(tree, unet_block.node)
            /\ tree_ops' = IF tree_cfg.format = "compact"
                           THEN tree_save_sampling_and_search(tree_ops,
                                                              unet_block.node)
                           ELSE tree_ops
            /\ i' = i - 1
            /\ UNCHANGED <<pc, err, unresolved>>
    /\ UNCHANGED <<tree_cfg, modelVars, blockVars, tfwdVars, msVars>>

\* lines 166-171, or lines 221-231: the outermost block
TreeOutermost ==
    /\ pc = "tree_loop"
    /\ i = 0
    /\ LET model == TreeBlock(tree_cfg, tree, 0, TRUE) IN
       IF model.err # NoError
       THEN TreeRaise(model.err)
       ELSE /\ tree' = Append(tree, model.node)
            /\ tree_ops' = tree_save_sampling_and_search(tree_ops, model.node)
            /\ pc' = "tree_ready"
            /\ UNCHANGED <<err, unresolved>>
    /\ UNCHANGED <<i, tree_cfg, modelVars, blockVars, tfwdVars, msVars>>

\* UnetSkipConnectionBlock(...) called on its own, with any flags
SkipBlockConstruct ==
    /\ pc = "new"
    /\ \E outermost \in BOOLEAN, innermost \in BOOLEAN :
          LET b == UnetSkipConnectionBlock(
                      ArgsUp("plain", 0, 0), ArgsDown("single", 0, 1),
                      TRUE, "Identity", outermost, innermost)
          IN /\ tree_cfg' = [format |-> "block", outermost |-> outermost,
                              innermost |-> innermost]
             /\ IF b.err # NoError
                THEN TreeRaise(b.err)
                ELSE /\ tree' = <<b.node>>
                     /\ pc' = "skip_ready"
                     /\ UNCHANGED <<err, unresolved, tree_ops>>
    /\ UNCHANGED <<i, modelVars, blockVars, tfwdVars, msVars>>

\* a call a block's forward makes: the attribute called, the position in
\* tree of the block, and the argument
Call(op, node, arg) == [op |-> op, node |-> node, arg |-> arg]

\* where control is when no forward of the tree is running
TreeIdle == IF tree_cfg.format = "block" THEN "skip_ready" ELSE "tree_ready"

\* self.model(data), or block(data) for a block constructed on its own: the
\* call of forward on the outermost block, line 320
TreeForward ==
    /\ pc \in {"tree_ready", "skip_ready"}
    /\ pc' = "tf_call"
    /\ i' = Len(tree)
    /\ tree_frames' = <<>>
    /\ tree_data' = <<"input", 0>>
    /\ tree_log' = <<>>
    /\ tree_out' = [result |-> "none", data |-> <<"none", 0>>]
    /\ UNCHANGED <<err, unresolved, tree, tree_cfg, tree_ops>>
    /\ UNCHANGED <<modelVars, blockVars, msVars>>

\* lines 321-322 and 326 had the pair been made with the output of the
\* first step in place of the argument of forward
TreeEnter_KeepOutput ==
    /\ pc = "tf_call"
    /\ LET op == IF tree[i].innermost THEN "inner" ELSE "down" IN
       /\ tree_log' = Append(tree_log, Call(op, i, tree_data))
       /\ tree_frames' = Append(tree_frames, <<op, i>>)
       /\ tree_data' = <<op, i>>
    /\ pc' = IF tree[i].innermost THEN "tf_up" ELSE "tf_sub"
    /\ UNCHANGED <<err, unresolved, i, tree, tree_cfg, tree_ops, tree_out>>
    /\ UNCHANGED <<modelVars, blockVars, msVars>>

\* forward of block i is entered with data: line 322 (self.inner) on the
\* innermost block, line 326 (self.down) on any other; data stays a local of
\* the call
TreeEnter ==
    /\ pc = "tf_call"
    /\ LET op == IF tree[i].innermost THEN "inner" ELSE "down" IN
       /\ tree_log' = Append(tree_log, Call(op, i, tree_data))
       /\ tree_frames' = Append(tree_frames, tree_data)
       /\ tree_data' = <<op, i>>
    /\ pc' = IF tree[i].innermost THEN "tf_up" ELSE "tf_sub"
    /\ UNCHANGED <<err, unresolved, i, tree, tree_cfg, tree_ops, tree_out>>
    /\ UNCHANGED <<modelVars, blockVars, msVars>>

\* an exception leaves the forward of the tree
TreeFwdRaise(e) ==
    /\ tree_out' = [result |-> e, data |-> <<"none", 0>>]
    /\ pc' = TreeIdle

\* line 327, self.submodule(data_out): a block is entered in its turn, an
\* Identity returns its argument, a list is not callable
TreeSubmodule ==
    /\ pc = "tf_sub"
    /\ tree_log' = Append(tree_log, Call("submodule", i, tree_data))
    /\ IF tree[i].submodule = "block"
       THEN /\ i' = i - 1
            /\ pc' = "tf_call"
            /\ UNCHANGED tree_out
       ELSE IF tree[i].submodule = "Identity"
       THEN /\ pc' = "tf_up"
            /\ UNCHANGED <<i, tree_out>>
       ELSE /\ TreeFwdRaise("TypeError")
            /\ UNCHANGED i
    /\ UNCHANGED <<err, unresolved, tree, tree_cfg, tree_ops, tree_frames,
                   tree_data>>
    /\ UNCHANGED <<modelVars, blockVars, msVars>>

\* lines 323-324, or 328-329: self.up on the pair of the value the inner
\* step returned and the argument of this call, and the return to the caller
TreeUp ==
    /\ pc = "tf_up"
    /\ tree_log' = Append(tree_log,
                       Call("up", i,
                            <<tree_data, tree_frames[Len(tree_frames)]>>))
    /\ tree_frames' = SubSeq(tree_frames, 1, Len(tree_frames) - 1)
    /\ tree_data' = <<"up", i>>
    /\ IF i = Len(tree)
       THEN /\ tree_out' = [result |-> "ok", data |-> <<"up", i>>]
            /\ pc' = TreeIdle
            /\ UNCHANGED i
       ELSE /\ i' = i + 1
            /\ UNCHANGED <<pc, tree_out>>
    /\ UNCHANGED <<err, unresolved, tree, tree_cfg, tree_ops>>
    /\ UNCHANGED <<modelVars, blockVars, msVars>>

(***************************************************************************)
(* MultiScaleTransform                                                     *)
(***************************************************************************)
\* the samplers a strategy may hold: one that keeps every point, one that
\* keeps every other point, one that keeps the first point
SamplerKinds == {"all", "half", "first"}

\* idx = sampler(pos, batch): the positions in pos of the points kept
Sample(kind, pos) ==
    CASE kind = "all" -> [k \in 1..Len(pos) |-> k - 1]
      [] kind = "half" -> [k \in 1..((Len(pos) + 1) \div 2) |-> 2 * (k - 1)]
      [] kind = "first" -> <<0>>

\* pos[idx]
Gather(pos, idx) == [k \in 1..Len(idx) |-> pos[idx[k] + 1]]

\* strategies[layer]: a sampler and a neighbour finder
Strategy(kind, layer) ==
    [sampler |-> [kind |-> kind, of |-> layer],
     neighbour_finder |-> [of |-> layer]]

\* the values of the argument strategies: None, or a dict of n strategies
\* under the keys 0..n-1
StrategyChoices ==
    {[kind |-> "None"]}
    \cup {[kind |-> "dict",
           items |-> [k \in 0..(Len(f) - 1) |-> Strategy(f[k + 1], k)]] :
             f \in SeqsOf(SamplerKinds, 0, MaxLayers)}

\* bool(strategies)
Truthy(strategies) ==
    strategies.kind = "dict" /\ DOMAIN strategies.items # {}

\* the names of the attributes of data
PosName == <<"pos", 0>>
IndexName(index) == <<"index", index>>
EdgeName(index) == <<"edge_index", index>>
IncName == <<"__inc__", 0>>

\* MultiScaleTransform(strategies, precompute_multi_scale), lines 37-44;
\* num_layers is -1 as long as line 44 has not set it
MSConstruct ==
    /\ pc = "new"
    /\ \E strategies \in StrategyChoices, flag \in BOOLEAN :
          IF flag /\ ~Truthy(strategies)
             THEN /\ transform' = [kind |-> "MultiScaleTransform",
                                   strategies |-> strategies,
                                   precompute_multi_scale |-> flag,
                                   num_layers |-> -1]
                  /\ pc' = "ms_failed" /\ err' = "Exception"
             ELSE IF strategies.kind = "None"
             THEN /\ transform' = [kind |-> "MultiScaleTransform",
                                   strategies |-> strategies,
                                   precompute_multi_scale |-> flag,
                                   num_layers |-> -1]
                  /\ pc' = "ms_failed" /\ err' = "AttributeError"
             ELSE /\ transform' = [kind |-> "MultiScaleTransform",
                                   strategies |-> strategies,
                                   precompute_multi_scale |-> flag,
                                   num_layers |->
                                      Cardinality(DOMAIN strategies.items)]
                  /\ pc' = "ms_ready" /\ UNCHANGED err
    /\ UNCHANGED <<unresolved, i, ms_data, ms_pos, special_params, ms_log,
                   ms_out>>
    /\ UNCHANGED <<modelVars, blockVars, treeVars>>

\* the call transform(data), lines 56-61, and line 85 when
\* precompute_multi_scale is not set.  Read: the points of data
MSCall ==
    /\ pc = "ms_ready"
    /\ \E num_points \in 1..MaxPoints :
          ms_data' = << <<PosName, [k \in 1..num_points |-> k]>> >>
    /\ ms_log' = <<>>
    /\ special_params' = <<>>
    /\ i' = 0
    /\ IF transform.precompute_multi_scale
       THEN /\ ms_pos' = GetAttr(ms_data', PosName)
            /\ ms_out' = [result |-> "none", data |-> <<>>]
            /\ pc' = "ms_loop"
       ELSE /\ ms_pos' = <<>>
            /\ ms_out' = [result |-> "ok", data |-> ms_data']
            /\ UNCHANGED pc
    /\ UNCHANGED <<err, unresolved, transform>>
    /\ UNCHANGED <<modelVars, blockVars, treeVars>>

\* the loop of lines 62-82 had it left pos and batch as they are (without
\* lines 81-82)
MSLayer_SamePos ==
    /\ pc = "ms_loop"
    /\ i < transform.num_layers
    /\ LET strategy == transform.strategies.items[i]
           idx == Sample(strategy.sampler.kind, ms_pos)
           edge_index == [finder |-> strategy.neighbour_finder,
                          support |-> ms_pos, query |-> Gather(ms_pos, idx)]
       IN /\ ms_log' = ms_log \o
                <<[op |-> "sampler", fn |-> strategy.sampler,
                   support |-> ms_pos, query |-> <<>>],
                  [op |-> "neighbour_finder",
                   fn |-> strategy.neighbour_finder,
                   support |-> ms_pos, query |-> Gather(ms_pos, idx)]>>
          /\ ms_data' = SetAttr(SetAttr(ms_data, IndexName(i), idx),
                                EdgeName(i), edge_index)
          /\ special_params' =
                SetAttr(SetAttr(special_params, IndexName(i), Len(ms_pos)),
                        EdgeName(i), <<Len(ms_pos), Len(idx)>>)
          /\ ms_pos' = ms_pos
    /\ i' = i + 1
    /\ UNCHANGED <<pc, err, unresolved, transform, ms_out>>
    /\ UNCHANGED <<modelVars, blockVars, treeVars>>

\* one turn of the loop of lines 62-82
MSLayer ==
    /\ pc = "ms_loop"
    /\ i < transform.num_layers
    /\ LET strategy == transform.strategies.items[i]
           idx == Sample(strategy.sampler.kind, ms_pos)
           edge_index == [finder |-> strategy.neighbour_finder,
                          support |-> ms_pos, query |-> Gather(ms_pos, idx)]
       IN /\ ms_log' = ms_log \o
                <<[op |-> "sampler", fn |-> strategy.sampler,
                   support |-> ms_pos, query |-> <<>>],
                  [op |-> "neighbour_finder",
                   fn |-> strategy.neighbour_finder,
                   support |-> ms_pos, query |-> Gather(ms_pos, idx)]>>
          /\ ms_data' = SetAttr(SetAttr(ms_data, IndexName(i), idx),
                                EdgeName(i), edge_index)
          /\ special_params' =
                SetAttr(SetAttr(special_params, IndexName(i), Len(ms_pos)),
                        EdgeName(i), <<Len(ms_pos), Len(idx)>>)
          /\ ms_pos' = Gather(ms_pos, idx)
    /\ i' = i + 1
    /\ UNCHANGED <<pc, err, unresolved, transform, ms_out>>
    /\ UNCHANGED <<modelVars, blockVars, treeVars>>

\* lines 83-85: the wrapped __inc__ and the return
MSReturn ==
    /\ pc = "ms_loop"
    /\ i = transform.num_layers
    /\ ms_data' = SetAttr(ms_data, IncName, special_params)
    /\ ms_out' = [result |-> "ok", data |-> ms_data']
    /\ pc' = "ms_ready"
    /\ UNCHANGED <<err, unresolved, i, transform, ms_pos, special_params,
                   ms_log>>
    /\ UNCHANGED <<modelVars, blockVars, treeVars>>

Next ==
    \/ Construct
    \/ BuildFactories
    \/ BuildInner
    \/ BuildDown
    \/ InitBranches
    \/ BuildBranches
    \/ Combine
    \/ BuildUp
    \/ Finish
    \/ Forward
    \/ ForwardDown
    \/ ForwardInner
    \/ ForwardCollect
    \/ ForwardUp
    \/ ForwardReturn
    \/ BlockConstruct
    \/ BlockForward
    \/ BlockDown
    \/ BlockModalityConv
    \/ BlockMerge
    \/ BlockConv
    \/ TreeConstruct
    \/ TreeLoop
    \/ TreeOutermost
    \/ SkipBlockConstruct
    \/ TreeForward
    \/ TreeEnter
    \/ TreeSubmodule
    \/ TreeUp
    \/ MSConstruct
    \/ MSCall
    \/ MSLayer
    \/ MSReturn

Spec == Init /\ [][Next]_vars


(***************************************************************************)
(* Properties                                                              *)
(***************************************************************************)
\* where forward is between its call and its return
FwdPcs == {"fwd_down", "fwd_inner", "fwd_collect", "fwd_up"}

\* __init__ has returned a model object
Built == pc \in {"ready"} \cup FwdPcs

\* a forward call has returned or raised, and no other was made since
Returned == pc = "ready" /\ out.result # "none"

\* the configuration had no innermost section
NoInnermost == inner_modules = <<IdentityModule>>

\* the up events of log
UpEvents == SelectSeq(log, LAMBDA e : e.op = "up")

\* C1 as stated: a single-modality model with N >= 1 down stages, N up
\* stages and no innermost module is built, and forward on it runs to
\* completion without popping an empty skip stack.
C1_Original ==
    (Returned /\ ~is_multimodal /\ NoInnermost
       /\ Len(down_modules) >= 1 /\ Len(up_modules) = Len(down_modules))
    => out.result = "ok"

\* C1 amended: a single-modality configuration with N >= 1 down stages, U up
\* stages and no innermost module never fails to build on account of its
\* layout, and forward on it runs to completion exactly when U <= N - 1: the
\* output of the last down stage is not pushed, the skip stack holds N - 1
\* entries, and with U >= N the N-th up stage pops an empty stack and forward
\* raises IndexError.  When forward completes, every up stage received a skip
\* entry produced by a down stage, the latest one first.
C1_Amended ==
    /\ (pc = "failed" /\ ~is_multimodal)
         => err \in {"NotImplementedError", "TypeError", "AttributeError"}
    /\ (Returned /\ ~is_multimodal /\ NoInnermost /\ Len(down_modules) >= 1)
         => /\ out.result \in {"ok", "IndexError"}
            /\ (out.result = "ok")
                 <=> (Len(up_modules) <= Len(down_modules) - 1)
            /\ (out.result = "ok") =>
                 /\ Len(UpEvents) = Len(up_modules)
                 /\ \A k \in 1..Len(UpEvents) :
                      UpEvents[k].skip =
                         <<"down", Len(down_modules) - 1 - k>>

\* a forward that completed on three down stages and two up stages
C1_Witness ==
    /\ Returned /\ out.result = "ok" /\ ~is_multimodal /\ NoInnermost
    /\ Len(down_modules) = 3 /\ Len(up_modules) = 2

\* C2: forward on a model declaring at least one modality raises
\* NotImplementedError at once: no down, inner or up module runs, nothing is
\* pushed or collected, and the input Data object is left as it was passed.
C2_MultimodalForwardRaises ==
    is_multimodal =>
       /\ pc \notin FwdPcs
       /\ out.result \in {"none", "NotImplementedError"}
       /\ log = <<>> /\ stack_down = <<>> /\ sampling_ids = <<>>
       /\ data \in {NoData, InputData}
       /\ Returned => (out.result = "NotImplementedError"
                         /\ data = InputData /\ out.data = NoData)

\* forward was called on a two-stage multimodal model, and raised
C2_Witness ==
    /\ is_multimodal /\ Returned /\ out.result = "NotImplementedError"
    /\ Len(down_modules) = 2

\* the count of main-stream down convolutions the parity assertion saw
NumDownConvs ==
    IF pc \in {"down", "branch", "failed"} THEN Len(convs)
    ELSE 2 * Len(down_modules)

\* C3: with modalities declared, a count of main-stream down convolutions
\* that is odd or zero ends __init__ with AssertionError at line 444, before
\* any branch is built and without a model object; an even positive count
\* passes the assertion.
C3_ParityAssertion ==
    /\ (is_multimodal /\ (pc \in {"branch", "up"} \/ Built))
         => (NumDownConvs % 2 = 0 /\ NumDownConvs > 0)
    /\ (is_multimodal /\ pc = "failed" /\ err = "AssertionError"
          /\ branches = <<>>)
         => (down_modules = <<>> /\ up_modules = <<>>
               /\ ~(Len(convs) % 2 = 0 /\ Len(convs) > 0))

\* three down convolutions were built for a multimodal model, and __init__
\* raised at the parity assertion
C3_Witness ==
    /\ is_multimodal /\ pc = "failed" /\ err = "AssertionError"
    /\ Len(convs) = 3 /\ branches = <<>>

\* the main-stream down convolutions in the order forward would run them: a
\* MultimodalBlockDown runs its down_block, then its conv_block
RECURSIVE ExecConvs(_)
ExecConvs(mods) ==
    IF mods = <<>> THEN <<>>
    ELSE IF "kind" \in DOMAIN Head(mods)
         THEN <<Head(mods).down_block, Head(mods).conv_block>>
                 \o ExecConvs(Tail(mods))
         ELSE <<Head(mods)>> \o ExecConvs(Tail(mods))

\* the operators the convolutions cs expose under field, one after another
RECURSIVE Exposed(_, _)
Exposed(cs, field) ==
    IF cs = <<>> THEN <<>>
    ELSE Head(cs)[field].items \o Exposed(Tail(cs), field)

\* how many operators the convolutions cs expose under field
RECURSIVE NumExposed(_, _)
NumExposed(cs, field) ==
    IF cs = <<>> THEN 0
    ELSE (IF Head(cs)[field].is_list THEN Len(Head(cs)[field].items) ELSE 1)
            + NumExposed(Tail(cs), field)

\* the upsample operators the up modules ms expose
RECURSIVE ExposedUpsample(_)
ExposedUpsample(ms) ==
    IF ms = <<>> THEN <<>>
    ELSE (IF Head(ms).upsample_op # NoneOp THEN <<Head(ms).upsample_op>>
          ELSE <<>>) \o ExposedUpsample(Tail(ms))

\* how far __init__ has come
BuildRank ==
    CASE pc = "new" -> 0
      [] pc = "factories" -> 1
      [] pc = "inner" -> 2
      [] pc = "down" -> 3
      [] pc = "branch" -> 4
      [] pc = "up" -> 5
      [] pc = "failed" -> 7
      [] OTHER -> 6

\* every block of the model has been built
AllBlocksBuilt == Built \/ (pc = "up" /\ i = n)

\* C4 as stated: the spatial-operator bundle is collected in a phase of its
\* own that follows the building of every block: while blocks remain to be
\* built the registries hold nothing.
C4_Original ==
    (pc # "failed" /\ spatial_ops_dict # EmptyOps) => AllBlocksBuilt

\* during __init__ the registries hold the operators of the blocks built so
\* far
RegistryFollowsBlocks ==
    /\ pc \in {"down", "branch"} =>
          /\ spatial_ops_dict.sampler = Exposed(convs, "sampler")
          /\ spatial_ops_dict.neighbour_finder
                = Exposed(convs, "neighbour_finder")
          /\ spatial_ops_dict.upsample_op = <<>>
    /\ pc = "up" =>
          spatial_ops_dict.upsample_op = ExposedUpsample(up_modules)

\* C4 amended: __init__ runs in one fixed order (modalities read, factories
\* resolved, inner modules built, down convolutions built, with modalities
\* the branches built and the blocks paired, up convolutions built) and never
\* goes back; there is no phase of its own for the bundle: the sampler and
\* neighbour finder of each down convolution, and the upsample operator of
\* each up convolution, are recorded as soon as that block is built, while
\* later blocks remain to be built; forward checks no phase, and runs only on
\* the object __init__ returned.
C4_Amended ==
    [][ /\ BuildRank' >= BuildRank
        /\ (pc' \in FwdPcs) => Built
        /\ (pc' = "ready") => (Built \/ (pc = "up" /\ i = n))
        /\ RegistryFollowsBlocks' ]_vars

\* two of three down convolutions are built, and the registry holds the
\* operators of the two
C4_Witness ==
    /\ pc = "down" /\ n = 3 /\ i = 2
    /\ Len(spatial_ops_dict.sampler) >= 2

C6_Original ==
    Built =>
       \A k \in 1..Len(spatial_ops_dict.sampler) :
          /\ k <= Len(ExecConvs(down_modules))
          /\ \E j \in 1..Len(ExecConvs(down_modules)[k].sampler.items) :
                spatial_ops_dict.sampler[k]
                   = ExecConvs(down_modules)[k].sampler.items[j]

\* the down events of log
DownEvents == SelectSeq(log, LAMBDA e : e.op = "down")

\* C6 amended: the sampler and neighbour_finder registries are the
\* concatenation, over the main-stream down convolutions in the order forward
\* runs them, of the operators each one exposes (its own list order for a
\* block exposing a list); entry k belongs to the k-th convolution whenever
\* every convolution exposes one operator.  This holds with and without
\* modalities.
C6_Amended ==
    Built =>
       /\ spatial_ops_dict.sampler
             = Exposed(ExecConvs(down_modules), "sampler")
       /\ spatial_ops_dict.neighbour_finder
             = Exposed(ExecConvs(down_modules), "neighbour_finder")
       /\ \A k \in 1..Len(DownEvents) :
             /\ DownEvents[k].index = k - 1
             /\ down_modules[k].index = k - 1
       /\ (\A k \in 1..Len(ExecConvs(down_modules)) :
              ~ExecConvs(down_modules)[k].sampler.is_list)
            => \A k \in 1..Len(ExecConvs(down_modules)) :
                  /\ spatial_ops_dict.sampler[k]
                        = ExecConvs(down_modules)[k].sampler.items[1]
                  /\ spatial_ops_dict.neighbour_finder[k]
                        = ExecConvs(down_modules)[k].neighbour_finder.items[1]

\* forward ran the three stages of a model of KPDualBlock stages of two blocks
C6_Witness ==
    /\ Returned /\ out.result = "ok" /\ Len(DownEvents) = 3
    /\ down_modules[1].sampler.is_list
    /\ Len(spatial_ops_dict.sampler) = 6

\* C7: the registries are written during construction only: no step of a
\* forward call, completing or raising, changes any of the three.
C7_RegistriesFrozen ==
    [][ Built => spatial_ops_dict' = spatial_ops_dict ]_vars

\* a forward call completed on a model whose registries are not empty
C7_Witness ==
    /\ Returned /\ out.result = "ok"
    /\ Len(spatial_ops_dict.sampler) >= 2
    /\ Len(spatial_ops_dict.upsample_op) >= 1

\* the first key of a Data object that starts with sampling_id, or <<>>
FirstSamplingKey(d) == extract_matching_key(KeysOf(d), <<"sampling_id">>, 1)

\* every collected sampling id is the value some entry of the skip stack
\* carries under the same key, the first of its keys starting with
\* sampling_id; nothing is collected unless save_sampling_id is set
CollectedFromStack ==
    /\ ~save_sampling_id => sampling_ids = <<>>
    /\ \A k \in 1..Len(sampling_ids) :
          \E e \in 1..Len(stack_down) :
             /\ FirstSamplingKey(stack_down[e]) = sampling_ids[k][1]
             /\ GetAttr(stack_down[e].attrs, sampling_ids[k][1])
                   = sampling_ids[k][2]

\* the output carries every collected sampling id under its key
AttachedToOutput ==
    \A k \in 1..Len(sampling_ids) :
       /\ HasAttr(out.data.attrs, sampling_ids[k][1])
       /\ GetAttr(out.data.attrs, sampling_ids[k][1]) = sampling_ids[k][2]

\* C8: with save_sampling_id set, every sampling-id attribute forward
\* attaches to its output has the value the skip-stack entry it was captured
\* from carries, under the key it has there: the ids are captured from the
\* stack before the up loop, the up loop does not alter them, and the return
\* sets each on the output, over whatever the last up module put there.
C8_SamplingIdsPreserved ==
    [][ /\ (pc = "fwd_collect") => CollectedFromStack'
        /\ (pc = "fwd_up") => sampling_ids' = sampling_ids
        /\ (pc = "fwd_up" /\ pc' = "ready" /\ out'.result = "ok")
              => AttachedToOutput' ]_vars

\* forward returned the output of an up module carrying a sampling id that a
\* down module computed
C8_Witness ==
    /\ Returned /\ out.result = "ok" /\ save_sampling_id
    /\ Len(sampling_ids) >= 1
    /\ out.data.src[1] = "up"
    /\ HasAttr(out.data.attrs, KeyB)
    /\ GetAttr(out.data.attrs, KeyB)[1] = "down"

\* C9: a module name that the factory or library asked for it does not know
\* (main-stream DOWN and UP, a modality's ATOMIC, VIEW, FUSION, UNET and
\* convolution names, the innermost names) ends __init__ with TypeError or
\* AttributeError at the block being built; no model object holds a block of
\* an unknown name, and forward never meets one.
C9_UnknownNameFailsBuild ==
    /\ (unresolved # NoName)
         => (pc = "failed" /\ err \in {"TypeError", "AttributeError"})
    /\ Built =>
         /\ unresolved = NoName
         /\ \A key \in DOMAIN resolved : resolved[key] # "None"
    /\ out.result \notin {"TypeError", "AttributeError"}

\* __init__ raised on the fusion name of the image modality
C9_Witness ==
    /\ pc = "failed" /\ err = "TypeError"
    /\ unresolved = <<"image", "fusion_name">>

\* C10: a modality that has an up_conv (a sub-network of its own) and more
\* than one branching index ends __init__ with AssertionError at line 460;
\* with exactly one index, or without up_conv, the assertion passes.
C10_UnetSingleBranch ==
    /\ (is_unet /\ Len(b_idx) > 1)
         => (pc = "failed" /\ err = "AssertionError")
    /\ (pc = "failed" /\ err = "AssertionError" /\ branches # <<>>)
         => (is_unet /\ Len(b_idx) # 1)
    /\ (pc \in {"branch", "up"} /\ is_unet) => Len(b_idx) = 1

\* __init__ raised on a modality with an up_conv and two branching indices
C10_Witness ==
    /\ pc = "failed" /\ err = "AssertionError"
    /\ is_unet /\ Len(b_idx) = 2

\* C11: a MultimodalBlockDown exposes the samplers and the neighbour finders
\* of both its main-stream convolutions: its sampler list holds the sampler
\* of down_block and the sampler of conv_block, and it exposes a
\* neighbour_finder list holding the neighbour finders of both.
C11_ExposesBothConvolutions ==
    (block # NoBlock) =>
       /\ \E k \in 1..Len(block.sampler) :
             block.sampler[k] = block.down_block.sampler
       /\ \E k \in 1..Len(block.sampler) :
             block.sampler[k] = block.conv_block.sampler
       /\ "neighbour_finder" \in DOMAIN block
       /\ \E k \in 1..Len(block.neighbour_finder) :
             block.neighbour_finder[k] = block.down_block.neighbour_finder
       /\ \E k \in 1..Len(block.neighbour_finder) :
             block.neighbour_finder[k] = block.conv_block.neighbour_finder

\* the exceptions by which a branch can reject a mapping that does not fit
\* the main-stream sample
ContractViolations == {"IndexError", "ValueError", "RuntimeError",
                       "AssertionError"}

\* a call of the block has returned or raised
BlockReturned == pc = "blk_ready" /\ blk_out # "none"

\* C12: when a modality branch of a MultimodalBlockDown is given a mapping
\* that refers to a point index outside the reduced main-stream sample,
\* forward raises a shape or contract violation at that branch, before the
\* post-fusion convolution runs.
C12_StaleMappingRejected ==
    (BlockReturned /\ BlockModalities(block) # <<>>
       /\ \E m \in DOMAIN mm_data.modalities :
             mm_data.modalities[m].mappings = "stale")
    => /\ blk_out \in ContractViolations
       /\ \A k \in 1..Len(blk_log) : blk_log[k][1] # "conv_block"

\* C13: UnetSkipConnectionBlock(..., outermost=True, innermost=True) raises
\* AssertionError in its constructor and no block results; with any other
\* flags the constructor does not raise it, and no block that exists carries
\* both flags.
C13_InnermostOutermostRejected ==
    /\ (tree_cfg.format = "block") =>
          ((tree_cfg.outermost /\ tree_cfg.innermost)
             <=> (pc = "tree_failed" /\ err = "AssertionError"
                    /\ tree = <<>>))
    /\ \A k \in 1..Len(tree) : ~(tree[k].outermost /\ tree[k].innermost)

\* the constructor was given both flags, and raised
C13_Witness ==
    /\ tree_cfg.format = "block"
    /\ tree_cfg.outermost /\ tree_cfg.innermost
    /\ pc = "tree_failed" /\ err = "AssertionError"

\* the positions in tree of the blocks flagged outermost, and innermost
OutermostNodes == {k \in 1..Len(tree) : tree[k].outermost}
InnermostNodes == {k \in 1..Len(tree) : tree[k].innermost}

\* UnetBasedModel.__init__ has returned
TreeBuilt == pc = "tree_ready"

\* C14 as stated: every tree UnetBasedModel builds, in either format, with or
\* without an innermost section, has exactly one block flagged outermost and
\* exactly one flagged innermost.
C14_Original ==
    TreeBuilt => (Cardinality(OutermostNodes) = 1
                    /\ Cardinality(InnermostNodes) = 1)

\* C14 amended: every tree UnetBasedModel builds, in either format and for
\* any number N >= 1 of down layers, has exactly one block flagged outermost,
\* the last one built; it has exactly one block flagged innermost, the
\* deepest, when the configuration has an innermost section, and none when
\* it has not: the deepest block's submodule is then an Identity (compact
\* format) or an empty list (layer-list format), neither of them a flagged
\* block.  No other block carries either flag.
C14_Amended ==
    TreeBuilt =>
       /\ OutermostNodes = {Len(tree)}
       /\ InnermostNodes = IF tree_cfg.has_innermost THEN {1} ELSE {}
       /\ Len(tree) = tree_cfg.num_convs
                         + (IF tree_cfg.has_innermost THEN 1 ELSE 0)
       /\ ~tree_cfg.has_innermost =>
             tree[1].submodule = IF tree_cfg.format = "compact"
                                 THEN "Identity" ELSE "EmptyList"
       /\ \A k \in 2..Len(tree) : tree[k].submodule = "block"

\* a tree of three blocks built from a layer list without innermost section
C14_Witness ==
    /\ TreeBuilt /\ ~tree_cfg.has_innermost
    /\ tree_cfg.format = "list" /\ Len(tree) = 3

\* the inner module ran in the forward call under way or last made
InnerRan == \E k \in 1..Len(log) : log[k].op = "inner"

\* the producers of the entries pushed on the skip stack by the forward call
\* under way or last made, in the order they were pushed
Pushed ==
    [k \in 1..(IF InnerRan THEN Len(DownEvents)
               ELSE IF pc = "fwd_down" THEN Len(DownEvents)
               ELSE Len(DownEvents) - 1) |-> <<"down", k - 1>>]

\* C15: in a single-modality forward the down blocks run in list order and
\* the output of each but the last is pushed on the skip stack; the up blocks
\* then run in list order, and up block i is given the entry pushed latest
\* among those still on the stack; with no innermost module up block i gets
\* the output of down block D - 2 - i, D the number of down blocks.
C15_SkipStackLifo ==
    (~is_multimodal /\ (pc \in FwdPcs \/ (Returned /\ out.result = "ok")))
    => /\ \A k \in 1..Len(DownEvents) : DownEvents[k].index = k - 1
       /\ \A k \in 1..Len(UpEvents) :
             /\ UpEvents[k].index = k - 1
             /\ UpEvents[k].skip = Pushed[Len(Pushed) + 1 - k]
             /\ (~InnerRan) =>
                   UpEvents[k].skip
                      = <<"down", Len(down_modules) - 2 - (k - 1)>>
       /\ \A j, k \in 1..Len(log) :
             (log[j].op = "up" /\ log[k].op # "up") => k < j
       /\ (pc \in FwdPcs) =>
             /\ Len(stack_down) = Len(Pushed) - Len(UpEvents)
             /\ \A k \in 1..Len(stack_down) : stack_down[k].src = Pushed[k]
       /\ (pc \in {"fwd_inner"}) =>
             Len(stack_down) = Len(down_modules) - 1

\* forward completed on four down blocks and three up blocks
C15_Witness ==
    /\ Returned /\ out.result = "ok" /\ ~is_multimodal /\ NoInnermost
    /\ Len(down_modules) = 4 /\ Len(UpEvents) = 3

\* the events of log that are runs of an inner module
InnerEvents == SelectSeq(log, LAMBDA e : e.op = "inner")

\* C16: without innermost section the inner module is an Identity: forward
\* runs no inner computation and pushes nothing for that step, and the skip
\* stack holds D - 1 entries before the up pass, D the number of down blocks;
\* with an innermost module configured, forward pushes exactly one more entry
\* (the output of the last down block), runs that module once, and the stack
\* holds D entries before the up pass.
C16_InnermostPush ==
    (~is_multimodal /\ Built) =>
       /\ NoInnermost =>
             /\ InnerEvents = <<>>
             /\ (pc = "fwd_collect") =>
                   Len(stack_down) = Len(down_modules) - 1
       /\ (~NoInnermost /\ inner_modules # <<>>) =>
             /\ \A k \in 1..Len(inner_modules) :
                   inner_modules[k].kind = "inner"
             /\ Len(InnerEvents) <= 1
             /\ (pc = "fwd_collect") =>
                   /\ Len(InnerEvents) = 1
                   /\ Len(stack_down) = Len(down_modules)
                   /\ stack_down[Len(stack_down)].src
                         = <<"down", Len(down_modules) - 1>>
                   /\ data.src = <<"inner", 0>>

\* the innermost module of a model of three down blocks has just run
C16_Witness ==
    /\ pc = "fwd_collect" /\ ~NoInnermost /\ Len(InnerEvents) = 1
    /\ Len(down_modules) = 3 /\ Len(stack_down) = 3

\* the positions of the keys of a Data object that start with sampling_id
SamplingKeyPositions(d) ==
    {j \in 1..Len(d.attrs) : StartsWith(d.attrs[j][1], <<"sampling_id">>)}

\* the least of them
LeadingPosition(d) ==
    CHOOSE j \in SamplingKeyPositions(d) :
       \A j2 \in SamplingKeyPositions(d) : j <= j2

\* the items of a sequence, as a set
Items(seq) == {seq[k] : k \in 1..Len(seq)}

\* what the entries of the skip stack contribute: of each entry with a key
\* starting with sampling_id, the leading such key
ContributedKeys ==
    {stack_down[e].attrs[LeadingPosition(stack_down[e])][1] :
        e \in {e2 \in 1..Len(stack_down) :
                  SamplingKeyPositions(stack_down[e2]) # {}}}

\* the collected ids against the skip stack they were collected from
OneKeyPerEntry ==
    /\ {sampling_ids[k][1] : k \in 1..Len(sampling_ids)}
          = (IF save_sampling_id THEN ContributedKeys ELSE {})
    /\ \A k1, k2 \in 1..Len(sampling_ids) :
          sampling_ids[k1][1] = sampling_ids[k2][1] => k1 = k2
    /\ Len(sampling_ids) <= Len(stack_down)
    /\ \A e \in 1..Len(stack_down) :
          \A j \in SamplingKeyPositions(stack_down[e]) :
             \/ j = LeadingPosition(stack_down[e])
             \/ stack_down[e].attrs[j] \notin Items(sampling_ids)
    /\ \A k \in 1..Len(sampling_ids) :
          \E e \in 1..Len(stack_down) :
             /\ SamplingKeyPositions(stack_down[e]) # {}
             /\ stack_down[e].attrs[LeadingPosition(stack_down[e])]
                   = sampling_ids[k]

\* a sampling id of the output is the making of the module that computed the
\* output, or collected
OutputIdsCollected ==
    \A j \in SamplingKeyPositions(out.data) :
       \/ out.data.attrs[j][2] = out.data.src
       \/ out.data.attrs[j] \in Items(sampling_ids)

\* C17: when the sampling ids are collected, each entry of the skip stack
\* contributes at most one attribute, the first of its keys, in its key
\* order, that starts with sampling_id; a further matching key of the same
\* entry is not collected and does not reach the output, and an entry with no
\* matching key contributes nothing.
C17_FirstMatchingKeyOnly ==
    [][ /\ (pc = "fwd_collect" /\ pc' = "fwd_up") => OneKeyPerEntry'
        /\ (pc = "fwd_up" /\ pc' = "ready" /\ out'.result = "ok")
              => OutputIdsCollected' ]_vars

\* ids were collected from a stack with an entry of two matching keys and an
\* entry of none: one id, under the first of the two keys
C17_Witness ==
    /\ pc = "fwd_up" /\ i = 0 /\ save_sampling_id
    /\ Len(stack_down) = 2
    /\ \E e \in 1..2 : Cardinality(SamplingKeyPositions(stack_down[e])) = 2
    /\ \E e \in 1..2 : SamplingKeyPositions(stack_down[e]) = {}
    /\ {sampling_ids[k][1] : k \in 1..Len(sampling_ids)} = {KeyB}

\* the branch table is laid out: one stage per pair of down convolutions,
\* and in every stage one slot per configured modality
UniformStages ==
    /\ Len(branches) = Len(convs) \div 2
    /\ \A s \in 1..Len(branches) :
          DOMAIN branches[s] = {modalities[k] : k \in 1..Len(modalities)}

\* the slots of modality m follow the branching indices idxs
SlotsFollow(m, idxs) ==
    \A s \in 1..Len(branches) :
       /\ branches[s][m].kind \in {"UnimodalBranch", "Identity"}
       /\ branches[s][m].kind = "UnimodalBranch"
             <=> \E j \in 1..Len(idxs) : idxs[j] = s - 1

DownConvsBuilt ==
    \/ pc = "branch" /\ i = Len(modalities)
    \/ pc = "down" /\ i = n /\ ~is_multimodal

\* block s of down_modules wraps the convolutions 2(s-1) and 2(s-1)+1 of the
\* configuration and the branch slots of stage s-1
WrapsStage(s) ==
    /\ down_modules[s].kind = "MultimodalBlockDown"
    /\ down_modules[s].down_block = convs[2 * s - 1]
    /\ down_modules[s].down_block.index = 2 * (s - 1)
    /\ down_modules[s].conv_block = convs[2 * s]
    /\ down_modules[s].conv_block.index = 2 * (s - 1) + 1
    /\ down_modules[s].modality_blocks = branches[s]

\* C19: with modalities configured and 2S down convolutions, the build
\* makes down_modules a list of exactly S blocks, block k wrapping
\* convolution 2k as pre-fusion, convolution 2k+1 as post-fusion and the
\* branch slots of stage k; with no modality configured, down_modules is the
\* list of all configured down convolutions, unchanged and in order.
C19_PairedDownModules ==
    [][ DownConvsBuilt =>
          IF is_multimodal
          THEN /\ pc' = "up"
               /\ Len(down_modules') = Len(convs) \div 2
               /\ \A s \in 1..Len(down_modules') : WrapsStage(s)'
          ELSE /\ pc' = "up"
               /\ down_modules' = convs
               /\ \A k \in 1..Len(convs) : convs[k].index = k - 1 ]_vars

\* a build whose branch table holds a placeholder stopped at the pairing
C19_PlaceholderRejected ==
    /\ is_multimodal /\ pc = "failed" /\ err = "AttributeError"
    /\ Len(branches) = 2 /\ b_idx = <<0>>
    /\ branches[2][modalities[1]].kind = "Identity"
    /\ down_modules = <<>>

\* the positions of blk_log at which step op ran on stream m
StepsOf(op, m) == {k \in 1..Len(blk_log) : blk_log[k] = <<op, m>>}

\* C20: MultimodalBlockDown.forward performs its steps in a fixed order: the
\* main-stream down convolution first; then, for each modality of the block,
\* that modality's convolution before its merge into the main stream; the
\* post-fusion main-stream convolution last, after every modality has been
\* merged; and the block returns the updated joint sample.
C20_ForwardOrder ==
    BlockReturned =>
       /\ blk_out = "ok"
       /\ StepsOf("down_block", "main") = {1}
       /\ StepsOf("conv_block", "main") = {Len(blk_log)}
       /\ \A j \in 1..Len(BlockModalities(block)) :
             LET m == BlockModalities(block)[j] IN
             \E c \in StepsOf("conv", m), g \in StepsOf("merge", m) :
                /\ 1 < c /\ c < g /\ g < Len(blk_log)

\* a call of a block without modality runs the two main-stream convolutions
\* in order and returns
C20_UnimodalOrder ==
    (BlockReturned /\ BlockModalities(block) = <<>>)
    => /\ blk_out = "ok"
       /\ blk_log = << <<"down_block", "main">>, <<"conv_block", "main">> >>

\* a call of a block with a modality stopped after the modality convolution
C20_StoppedAtMerge ==
    /\ BlockReturned /\ BlockModalities(block) # <<>>
    /\ blk_out = "AttributeError"
    /\ blk_log = << <<"down_block", "main">>, <<"conv", "image">> >>

\* the modalities whose convolution the call of the block ran, in the order
\* it ran them
ProcessedModalities ==
    [k \in 1..Len(SelectSeq(blk_log, LAMBDA e : e[1] = "conv")) |->
        SelectSeq(blk_log, LAMBDA e : e[1] = "conv")[k][2]]

\* C21: MultimodalBlockDown.forward processes the active modalities in the
\* order in which they were declared to the block, the order of the modality
\* arguments given at construction, for any set of two or more modalities.
C21_DeclaredOrder ==
    (BlockReturned /\ block.kind = "MultimodalBlockDown"
       /\ Len(blk_kwargs) >= 2)
    => ProcessedModalities = blk_kwargs

\* the order forward goes by is that of MODALITY_NAMES, whatever the order
\* of the arguments, and it gets no further than the first modality
C21_CanonicalOrder ==
    (pc \in {"blk_ready", "blk_down", "blk_modal", "blk_merge"}) =>
       /\ BlockModalities(block)
             = SelectSeq(MODALITY_NAMES,
                  LAMBDA m : \E k \in 1..Len(blk_kwargs) : blk_kwargs[k] = m)
       /\ Len(ProcessedModalities) <= 1
       /\ \A k \in 1..Len(ProcessedModalities) :
             ProcessedModalities[k] = BlockModalities(block)[k]

\* a block given "other" before "image" ran the convolution of "image" and
\* stopped
C21_DeclaredSecondRanFirst ==
    /\ BlockReturned /\ blk_kwargs = <<"other", "image">>
    /\ ProcessedModalities = <<"image">>
    /\ blk_out = "AttributeError"

\* the positions of tree_log at which forward of block k called op
CallsAt(op, k) ==
    {j \in 1..Len(tree_log) : tree_log[j].op = op /\ tree_log[j].node = k}

\* a forward of the tree is running, or has returned or raised
TreeForwardRunning == pc \in {"tf_call", "tf_sub", "tf_up"}
TreeForwardOver ==
    pc \in {"tree_ready", "skip_ready"} /\ tree_out.result # "none"

\* what forward of block k is called with: the input of the tree, or the
\* output of the down convolution of the block around it
ArgumentOf(k) == IF k = Len(tree) THEN <<"input", 0>> ELSE <<"down", k + 1>>

\* what the submodule of block k returns: the output of the up step of the
\* block inside, or the argument unchanged when it is an Identity
SubmoduleOutput(k) ==
    IF tree[k].submodule = "block" THEN <<"up", k - 1>> ELSE <<"down", k>>

\* C22: UnetSkipConnectionBlock.forward on a block that is not innermost
\* calls down on its argument, then the submodule on the output of down, then
\* up on the pair (output of the submodule, argument of forward); on the
\* innermost block it calls inner on its argument, then up on the pair
\* (output of inner, argument of forward); each is called at most once, and
\* exactly once in a forward that returns.
C22_BlockForwardOrder ==
    (TreeForwardRunning \/ TreeForwardOver) =>
       \A k \in 1..Len(tree) :
          /\ \A op \in {"down", "inner", "submodule", "up"} :
                Cardinality(CallsAt(op, k)) <= 1
          /\ \A c \in CallsAt("down", k) \cup CallsAt("inner", k) :
                tree_log[c].arg = ArgumentOf(k)
          /\ IF tree[k].innermost
             THEN /\ CallsAt("down", k) = {} /\ CallsAt("submodule", k) = {}
                  /\ \A u \in CallsAt("up", k) :
                        \E c \in CallsAt("inner", k) :
                           /\ c < u
                           /\ tree_log[u].arg
                                 = << <<"inner", k>>, tree_log[c].arg >>
             ELSE /\ CallsAt("inner", k) = {}
                  /\ \A s \in CallsAt("submodule", k) :
                        /\ tree_log[s].arg = <<"down", k>>
                        /\ \E d \in CallsAt("down", k) : d < s
                  /\ \A u \in CallsAt("up", k) :
                        \E d \in CallsAt("down", k),
                           s \in CallsAt("submodule", k) :
                           /\ d < s /\ s < u
                           /\ tree_log[u].arg
                                 = << SubmoduleOutput(k), tree_log[d].arg >>
          /\ (TreeForwardOver /\ tree_out.result = "ok") =>
                /\ Cardinality(CallsAt("up", k)) = 1
                /\ tree[k].innermost => Cardinality(CallsAt("inner", k)) = 1

\* forward returned on a tree of an innermost block and two blocks around it
C22_Witness ==
    /\ TreeForwardOver /\ tree_out.result = "ok"
    /\ Len(tree) = 3 /\ tree[1].innermost
    /\ Len(tree_log) = 8

\* UnetBasedModel was constructed: its tree is built, whether or not a
\* forward runs on it
TreeOfModel ==
    /\ tree_cfg.format \in {"compact", "list"}
    /\ pc \in {"tree_ready", "tf_call", "tf_sub", "tf_up"}

\* the blocks of the tree that have a down convolution, and an up convolution
DownBlocks == {k \in 1..Len(tree) : ~tree[k].innermost}
UpBlocks == 1..Len(tree)

\* C23 as stated: the tree UnetBasedModel builds has as many up blocks as
\* down blocks, and a configuration whose number of up layers is not
\* symmetric with its number of down layers (N up layers for N down layers,
\* one more with an innermost section) is rejected at build time, with and
\* without innermost section, in both formats.
C23_Original ==
    /\ TreeOfModel => Cardinality(UpBlocks) = Cardinality(DownBlocks)
    /\ TreeOfModel =>
          tree_cfg.num_ups = tree_cfg.num_convs
                               + (IF tree_cfg.has_innermost THEN 1 ELSE 0)

\* C23 amended: with an innermost section, both builders reject with
\* AssertionError every configuration whose number of up layers is not the
\* number N of down layers plus one, and the tree has N down blocks and N + 1
\* up blocks, the innermost block having an up convolution and no down
\* convolution.  Without innermost section the tree has N blocks of one down
\* and one up convolution each, and no symmetry check is made: a
\* configuration of N or more up layers is never rejected for its layout, and
\* the layer-list builder rejects fewer than N up layers only by the
\* IndexError of reading a layer that does not exist.
C23_Amended ==
    /\ TreeOfModel =>
          /\ Cardinality(DownBlocks) = tree_cfg.num_convs
          /\ Cardinality(UpBlocks) = tree_cfg.num_convs
                + (IF tree_cfg.has_innermost THEN 1 ELSE 0)
          /\ tree_cfg.has_innermost =>
                tree_cfg.num_ups = tree_cfg.num_convs + 1
          /\ (~tree_cfg.has_innermost /\ tree_cfg.format = "list") =>
                /\ tree_cfg.num_ups >= 1
                /\ tree_cfg.num_ups >= tree_cfg.num_convs
    /\ (pc = "tree_failed" /\ tree_cfg.format \in {"compact", "list"}) =>
          /\ (err = "AssertionError") <=>
                (tree_cfg.has_innermost
                   /\ tree_cfg.num_ups # tree_cfg.num_convs + 1)
          /\ (err = "IndexError") => ~tree_cfg.has_innermost
          /\ (~tree_cfg.has_innermost
                /\ tree_cfg.num_ups >= tree_cfg.num_convs)
                => err \notin {"AssertionError", "IndexError"}

\* a tree was built without innermost section from three down layers and
\* five up layers
C23_Witness ==
    /\ TreeOfModel /\ pc = "tree_ready" /\ ~tree_cfg.has_innermost
    /\ tree_cfg.num_convs = 3 /\ tree_cfg.num_ups = 5
    /\ Len(tree) = 3

\* the operators of kind field that the down blocks of tree[1..k] expose, the
\* outermost of them first
RECURSIVE DownOperators(_, _)
DownOperators(field, k) ==
    IF k = 0 THEN <<>>
    ELSE (IF tree[k].innermost THEN <<>> ELSE tree[k].down[field].items)
            \o DownOperators(field, k - 1)

\* C24: after UnetBasedModel is built from N down layers, in either config
\* format, its sampler and neighbour_finder registries hold the operators of
\* every one of the N down blocks, ordered outermost first, the order in
\* which forward runs the down blocks.
C24_TreeRegistries ==
    TreeOfModel =>
       /\ tree_ops.sampler = DownOperators("sampler", Len(tree))
       /\ tree_ops.neighbour_finder
             = DownOperators("neighbour_finder", Len(tree))

\* the compact format does so
C24_CompactRegistries ==
    (TreeOfModel /\ tree_cfg.format = "compact") =>
       /\ tree_ops.sampler = DownOperators("sampler", Len(tree))
       /\ tree_ops.neighbour_finder
             = DownOperators("neighbour_finder", Len(tree))

\* the layer-list format registers the operators of the outermost block alone
C24_ListRegistersOutermost ==
    (TreeOfModel /\ tree_cfg.format = "list") =>
       /\ tree_ops.sampler = tree[Len(tree)].down.sampler.items
       /\ tree_ops.neighbour_finder
             = tree[Len(tree)].down.neighbour_finder.items

\* a tree built in the layer-list format from three down layers, each with a
\* sampler: one sampler is registered
C24_ListThreeLayers ==
    /\ TreeOfModel /\ tree_cfg.format = "list" /\ ~tree_cfg.has_innermost
    /\ tree_cfg.num_convs = 3 /\ tree_cfg.down_cls = "single"
    /\ Len(tree_ops.sampler) = 1
    /\ Len(DownOperators("sampler", Len(tree))) = 3

\* the point set layer k of the transform is to work on: the positions of
\* the input for layer 0, the points the sampler of layer k - 1 keeps of the
\* point set of layer k - 1 otherwise
RECURSIVE PointsOfLayer(_)
PointsOfLayer(k) ==
    IF k = 0 THEN GetAttr(ms_data, PosName)
    ELSE Gather(PointsOfLayer(k - 1),
                Sample(transform.strategies.items[k - 1].sampler.kind,
                       PointsOfLayer(k - 1)))

\* a call of the transform has returned
MSReturned == pc = "ms_ready" /\ ms_out.result = "ok"

\* layer k was processed as the claim has it
LayerProcessed(k) ==
    LET strategy == transform.strategies.items[k] IN
    /\ ms_log[2 * k + 1].op = "sampler"
    /\ ms_log[2 * k + 1].fn = strategy.sampler
    /\ ms_log[2 * k + 1].support = PointsOfLayer(k)
    /\ ms_log[2 * k + 2].op = "neighbour_finder"
    /\ ms_log[2 * k + 2].fn = strategy.neighbour_finder
    /\ ms_log[2 * k + 2].support = PointsOfLayer(k)
    /\ ms_log[2 * k + 2].query = PointsOfLayer(k + 1)
    /\ HasAttr(ms_data, IndexName(k))
    /\ GetAttr(ms_data, IndexName(k))
          = Sample(strategy.sampler.kind, PointsOfLayer(k))
    /\ HasAttr(ms_data, EdgeName(k))
    /\ GetAttr(ms_data, EdgeName(k)) =
          [finder |-> strategy.neighbour_finder,
           support |-> PointsOfLayer(k), query |-> PointsOfLayer(k + 1)]

\* C25: MultiScaleTransform with precompute_multi_scale set processes the
\* layers 0..num_layers-1 in increasing order; layer k applies its sampler
\* and neighbour finder to the point set the sampling of layer k-1 produced
\* (layer 0 to the input positions) and attaches index_k and edge_index_k to
\* the data, for every k; with the flag not set the data is returned with no
\* attribute added; constructing it with the flag set and empty strategies
\* raises an exception.
C25_MultiScaleLayers ==
    /\ (transform.kind = "MultiScaleTransform") =>
          ((transform.precompute_multi_scale
              /\ ~Truthy(transform.strategies))
           <=> (pc = "ms_failed" /\ err = "Exception"))
    /\ (pc = "ms_loop" \/ (MSReturned /\ transform.precompute_multi_scale)) =>
          /\ Len(ms_log) = 2 * i
          /\ \A k \in 0..(i - 1) : LayerProcessed(k)
          /\ \A k \in i..MaxLayers : ~HasAttr(ms_data, IndexName(k))
          /\ MSReturned =>
                /\ i = transform.num_layers
                /\ ms_out.data = ms_data
    /\ (MSReturned /\ ~transform.precompute_multi_scale) =>
          /\ ms_out.data = << <<PosName, GetAttr(ms_data, PosName)>> >>
          /\ ms_log = <<>>

\* the transform returned after three layers on four points, of which the
\* first layer kept two
C25_Witness ==
    /\ MSReturned /\ transform.precompute_multi_scale
    /\ transform.num_layers = 3
    /\ Len(PointsOfLayer(0)) = 4 /\ Len(PointsOfLayer(1)) = 2
    /\ HasAttr(ms_out.data, EdgeName(2))

\* the depth of block k of the tree, 0 for the outermost
DepthOf(k) == Len(tree) - k

\* the block at depth d uses down layer d and up layer N - 1 - d, and no up
\* layer is used twice
MirroredNesting ==
    /\ \A k \in 1..Len(tree) :
          /\ tree[k].down.index = DepthOf(k)
          /\ tree[k].up_layer = tree_cfg.num_convs - 1 - DepthOf(k)
    /\ \A j, k \in 1..Len(tree) :
          tree[j].up_layer = tree[k].up_layer => j = k
    /\ {tree[k].up_layer : k \in 1..Len(tree)} = 0..(tree_cfg.num_ups - 1)

\* a configuration of N down layers and N up layers without innermost section
SymmetricNoInnermost ==
    /\ TreeOfModel /\ ~tree_cfg.has_innermost
    /\ tree_cfg.num_ups = tree_cfg.num_convs

\* C26: for the same configuration of N layers with no innermost section and
\* N up layers, the compact-format builder and the layer-list-format builder
\* of UnetBasedModel produce the same nesting: the block at depth i (0 the
\* outermost) uses down layer i and up layer N-1-i, and every up layer is
\* used by exactly one block.
C26_SameNesting ==
    SymmetricNoInnermost => MirroredNesting

\* the compact builder alone produces that nesting
C26_CompactNesting ==
    (SymmetricNoInnermost /\ tree_cfg.format = "compact") => MirroredNesting

\* what the layer-list builder produces: the outermost block and the block
\* inside it both use the last up layer, the block at depth i >= 1 uses up
\* layer N - i, and up layer 0 is used by no block when N >= 2
C26_ListNesting ==
    (SymmetricNoInnermost /\ tree_cfg.format = "list") =>
       /\ \A k \in 1..Len(tree) :
             /\ tree[k].down.index = DepthOf(k)
             /\ tree[k].up_layer =
                   IF DepthOf(k) = 0 THEN tree_cfg.num_convs - 1
                   ELSE tree_cfg.num_convs - DepthOf(k)
       /\ (tree_cfg.num_convs >= 2) =>
             \A k \in 1..Len(tree) : tree[k].up_layer # 0

\* a layer-list tree of three blocks in which two blocks use up layer 2
C26_ListSharesLayer ==
    /\ SymmetricNoInnermost /\ tree_cfg.format = "list"
    /\ tree_cfg.num_convs = 3
    /\ tree[3].up_layer = 2 /\ tree[2].up_layer = 2 /\ tree[1].up_layer = 1

\* C27: when no innermost section is configured, the deepest submodule of
\* the tree UnetBasedModel builds is a callable identity pass-through, in
\* both config formats, so that the recursion of
\* UnetSkipConnectionBlock.forward reaches the bottom and returns through
\* the up step of every block without error.
C27_LeafIsIdentity ==
    (TreeOfModel /\ ~tree_cfg.has_innermost) =>
       /\ tree[1].submodule = "Identity"
       /\ TreeForwardOver =>
             /\ tree_out.result = "ok"
             /\ \A k \in 1..Len(tree) : Cardinality(CallsAt("up", k)) = 1

\* the compact format does so
C27_CompactLeaf ==
    (TreeOfModel /\ ~tree_cfg.has_innermost /\ tree_cfg.format = "compact") =>
       /\ tree[1].submodule = "Identity"
       /\ TreeForwardOver =>
             /\ tree_out.result = "ok"
             /\ \A k \in 1..Len(tree) : Cardinality(CallsAt("up", k)) = 1

\* forward on a layer-list tree of two blocks without innermost section ran
\* both down convolutions and raised at the call of the deepest submodule
C27_ListLeafNotCallable ==
    /\ TreeOfModel /\ ~tree_cfg.has_innermost /\ tree_cfg.format = "list"
    /\ Len(tree) = 2 /\ tree[1].submodule = "EmptyList"
    /\ TreeForwardOver /\ tree_out.result = "TypeError"
    /\ CallsAt("down", 1) # {} /\ CallsAt("up", 1) = {}

\* the down convolutions whose operators the registries were filled from:
\* the local list while __init__ runs, self.down_modules of a built model
\* without modalities
RegisteredConvs ==
    IF pc \in {"down", "branch", "up"} THEN convs ELSE down_modules

\* for each entry that the first k down convolutions contribute to the
\* registry of field, the position of the convolution it comes from
RECURSIVE EntryOwners(_, _)
EntryOwners(field, k) ==
    IF k = 0 THEN <<>>
    ELSE EntryOwners(field, k - 1)
            \o [j \in 1..Len(RegisteredConvs[k][field].items) |-> k]

\* the entries of the registry of field are those of the convolutions, one
\* after the other
RegistryOf(field) ==
    /\ Len(spatial_ops_dict[field])
          = Len(EntryOwners(field, Len(RegisteredConvs)))
    /\ \A k \in 1..Len(spatial_ops_dict[field]) :
          \E j \in 1..Len(RegisteredConvs[
                             EntryOwners(field, Len(RegisteredConvs))[k]
                          ][field].items) :
             spatial_ops_dict[field][k]
                = RegisteredConvs[
                     EntryOwners(field, Len(RegisteredConvs))[k]
                  ][field].items[j]

\* C28: in and after any build of UnwrappedUnetBasedModel, the sampler and
\* neighbour_finder registries have the same length and entry k of each
\* comes from the same down convolution, whether the down blocks expose a
\* single operator, a list of operators or no operator (recorded as None).
C28_RegistriesAligned ==
    /\ Len(spatial_ops_dict.sampler) = Len(spatial_ops_dict.neighbour_finder)
    /\ (pc \in {"down", "branch", "up"} \/ (Built /\ ~is_multimodal)) =>
          /\ RegistryOf("sampler")
          /\ RegistryOf("neighbour_finder")
          /\ EntryOwners("sampler", Len(RegisteredConvs))
                = EntryOwners("neighbour_finder", Len(RegisteredConvs))

\* a model of three down blocks that have a neighbour finder and no sampler:
\* three None and three neighbour finders are registered
C28_Witness ==
    /\ Built /\ ~is_multimodal /\ Len(down_modules) = 3
    /\ spatial_ops_dict.sampler = <<NoneOp, NoneOp, NoneOp>>
    /\ spatial_ops_dict.neighbour_finder = <<<<0, 0>>, <<1, 0>>, <<2, 0>>>>

\* C29: UnwrappedUnetBasedModel.forward applies at most one innermost
\* module, inner_modules[0], however many inner modules the build created
\* from a list-valued innermost configuration: no inner module of index 1 or
\* above is ever invoked, and the data handed on after the innermost step is
\* the output of inner_modules[0].
C29_FirstInnerOnly ==
    Built =>
       /\ Len(InnerEvents) <= 1
       /\ \A k \in 1..Len(InnerEvents) : InnerEvents[k].index = 0
       /\ (pc = "fwd_collect" /\ InnerEvents # <<>>)
             => data.src = <<"inner", 0>>

\* forward returned on a model built with two inner modules: one was invoked
C29_Witness ==
    /\ Returned /\ out.result = "ok" /\ ~is_multimodal
    /\ Len(inner_modules) = 2
    /\ Len(InnerEvents) = 1
    /\ Len(UpEvents) >= 1

\* the entries of the skip stack that contribute under key: those whose
\* leading sampling-id key it is
Carriers(key) ==
    {e \in 1..Len(stack_down) :
        /\ SamplingKeyPositions(stack_down[e]) # {}
        /\ stack_down[e].attrs[LeadingPosition(stack_down[e])][1] = key}

\* of the entries contributing under one key, the one pushed last gives the
\* collected value, and the value of an entry pushed before it is not kept
LaterEntryWins ==
    \A e \in 1..Len(stack_down) :
       SamplingKeyPositions(stack_down[e]) # {} =>
          LET item == stack_down[e].attrs[LeadingPosition(stack_down[e])]
          IN IF \A e2 \in Carriers(item[1]) : e2 <= e
             THEN /\ HasAttr(sampling_ids, item[1])
                  /\ GetAttr(sampling_ids, item[1]) = item[2]
             ELSE item \notin Items(sampling_ids)

\* the output holds every collected id under its key, and no sampling id
\* besides these but of the making of the module that computed the output
OutputHoldsCollected ==
    /\ \A k \in 1..Len(sampling_ids) :
          /\ HasAttr(out.data.attrs, sampling_ids[k][1])
          /\ GetAttr(out.data.attrs, sampling_ids[k][1]) = sampling_ids[k][2]
    /\ \A j \in SamplingKeyPositions(out.data) :
          \/ out.data.attrs[j] \in Items(sampling_ids)
          \/ out.data.attrs[j][2] = out.data.src

\* C30: when two entries of the skip stack contribute a sampling id under the
\* same key (the first key of each that starts with sampling_id), the collected
\* value is that of the entry pushed later, the deeper stage, it stays so
\* through the up loop and is what the output holds under that key, and the
\* value of the entry pushed earlier is lost; with save_sampling_id false
\* nothing is collected and the return attaches no attribute to the output,
\* which is the data of the last module as that module made it.
C30_LaterEntryOverwrites ==
    [][ /\ (pc = "fwd_collect" /\ pc' = "fwd_up" /\ save_sampling_id)
              => LaterEntryWins'
        /\ (pc = "fwd_collect" /\ pc' = "fwd_up" /\ ~save_sampling_id)
              => sampling_ids' = <<>>
        /\ (pc = "fwd_up" /\ pc' = "fwd_up") => sampling_ids' = sampling_ids
        /\ (pc = "fwd_up" /\ pc' = "ready" /\ out'.result = "ok")
              => /\ sampling_ids' = sampling_ids
                 /\ OutputHoldsCollected'
                 /\ ~save_sampling_id => out'.data.attrs = data.attrs ]_vars

\* forward returned from a model with fewer up modules than skips, so that
\* the two oldest entries are still on the stack: both carry the key, and the
\* output of the up module holds the value of the second
C30_Witness ==
    /\ Returned /\ out.result = "ok" /\ save_sampling_id
    /\ out.data.src[1] = "up"
    /\ Len(stack_down) = 2
    /\ Carriers(KeyB) = {1, 2}
    /\ HasAttr(out.data.attrs, KeyB)
    /\ GetAttr(out.data.attrs, KeyB) = stack_down[2].src
    /\ GetAttr(out.data.attrs, KeyB) # GetAttr(stack_down[1].attrs, KeyB)

=============================================================================
